---- MODULE Spec2Model ----
(***************************************************************************)
(* Excelsior: a Streamlit session that registers uploaded tables, derives  *)
(* pivot views from them and answers natural-language questions about a    *)
(* pivot through a query engine with a bounded retry loop.                 *)
(*                                                                         *)
(* One script run of app.main renders the upload tab, the pivot tab and    *)
(* then the query page, so every user event below ends with the query      *)
(* page's show_query_page.  Handling one question is split at the          *)
(* language-model calls and the expression evaluation; pc is the position  *)
(* inside that handling.                                                   *)
(***************************************************************************)
EXTENDS Integers, Sequences, FiniteSets, TLC

(***************************************************************************)
(* Bounds of the model                                                     *)
(***************************************************************************)
\* a question is accepted only while the log, with the question and its
\* answer appended, holds at most MaxLog messages
MaxLog == 6

(***************************************************************************)
(* Program constants                                                       *)
(***************************************************************************)
max_retries == 3

\* Python's None, and a key that is not in a dict
None == "<None>"
Absent == "<absent>"

Range(s) == {s[i] : i \in 1..Len(s)}

(***************************************************************************)
(* Texts.  A text is named by a string; Chars gives its characters, which  *)
(* is what lower(), the `in` substring test and re.search work on.         *)
(***************************************************************************)
Queries == {"Whole", "sum"}

Chars(q) ==
    CASE q = "Whole" -> <<"W", "h", "o", "l", "e">>
      [] q = "sum" -> <<"s", "u", "m">>
      [] q = "Month" -> <<"M", "o", "n", "t", "h">>
      [] q = "Country" -> <<"C", "o", "u", "n", "t", "r", "y">>
      [] q = "Revenue" -> <<"R", "e", "v", "e", "n", "u", "e">>
      [] q = "Jan 2024" -> <<"J", "a", "n", " ", "2", "0", "2", "4">>
      [] q = "2024-01-05" -> <<"2", "0", "2", "4", "-", "0", "1", "-", "0", "5">>
      [] q = "10 mar" -> <<"1", "0", " ", "m", "a", "r">>
      [] q = "mayhem" -> <<"m", "a", "y", "h", "e", "m">>
      [] q = "abc" -> <<"a", "b", "c">>
      [] q = "UK" -> <<"U", "K">>
      [] q = "FR" -> <<"F", "R">>
      [] q = "100" -> <<"1", "0", "0">>
      [] q = "50" -> <<"5", "0">>
      [] q = "Notes" -> <<"N", "o", "t", "e", "s">>
      [] q = " Month" -> <<" ", "M", "o", "n", "t", "h">>
      [] q = "Year" -> <<"Y", "e", "a", "r">>
      [] q = "2024" -> <<"2", "0", "2", "4">>
      [] OTHER -> <<>>

UpperCase == <<"A","B","C","D","E","F","G","H","I","J","K","L","M",
               "N","O","P","Q","R","S","T","U","V","W","X","Y","Z">>
LowerCase == <<"a","b","c","d","e","f","g","h","i","j","k","l","m",
               "n","o","p","q","r","s","t","u","v","w","x","y","z">>

\* str.lower(), character by character
LowerChar(c) ==
    IF \E i \in 1..26 : UpperCase[i] = c
    THEN LowerCase[CHOOSE i \in 1..26 : UpperCase[i] = c]
    ELSE c

Lower(s) == [i \in 1..Len(s) |-> LowerChar(s[i])]

\* keyword in text
Contains(text, keyword) ==
    \E off \in 0..(Len(text) - Len(keyword)) :
        \A j \in 1..Len(keyword) : text[off + j] = keyword[j]

analytical_keywords ==
    << <<"a","n","a","l","y","s","e">>,
       <<"w","h","y">>,
       <<"e","x","p","l","a","i","n">>,
       <<"i","n","t","e","r","p","r","e","t">>,
       <<"i","n","s","i","g","h","t">>,
       <<"t","r","e","n","d">>,
       <<"p","a","t","t","e","r","n">>,
       <<"m","e","a","n","i","n","g">>,
       <<"i","m","p","l","i","c","a","t","i","o","n">>,
       <<"c","o","m","p","a","r","e">>,
       <<"r","e","a","s","o","n">>,
       <<"u","n","d","e","r","s","t","a","n","d">>,
       <<"c","o","n","t","r","i","b","u","t","e">>,
       <<"w","h","o">> >>

\* a mutation of is_analytical: the question is not lower-cased
IsAnalyticalCaseSensitive(q) ==
    \E k \in 1..Len(analytical_keywords) : Contains(Chars(q), analytical_keywords[k])

\* is_analytical of execute_overall_query
IsAnalytical(q) ==
    \E k \in 1..Len(analytical_keywords) :
        Contains(Lower(Chars(q)), analytical_keywords[k])

(***************************************************************************)
(* Uploaded files and their tables                                         *)
(***************************************************************************)
Files == {"sales.csv"}

\* cell values: NaN/None, an int64, a float64, a str
NaN == [kind |-> "null"]
Int64(n) == [kind |-> "int", n |-> n]
Float64(n) == [kind |-> "float", n |-> n]
Text(s) == [kind |-> "str", s |-> s]

IsNull(v) == v.kind = "null"
IsNumber(v) == v.kind \in {"int", "float"}

\* str(v), astype(str)
Str(v) ==
    CASE v.kind = "null" -> "nan"
      [] v.kind = "int" -> ToString(v.n)
      [] v.kind = "float" -> ToString(v.n) \o ".0"
      [] v.kind = "str" -> v.s

\* the texts pd.to_numeric parses, and the number each one denotes
IsNumeral(s) == s \in {"100", "50"}
NumeralValue(s) == CASE s = "100" -> 100 [] s = "50" -> 50

\* pd.to_numeric(..., errors='coerce') on one cell
to_numeric(v) ==
    CASE v.kind = "str" -> IF IsNumeral(v.s) THEN Int64(NumeralValue(v.s)) ELSE NaN
      [] OTHER -> v

\* a DataFrame: the column names in order, the dtype of each column and the
\* rows in order, each row a function from the column names to cell values
NoTable == [columns |-> <<>>, dtypes |-> <<>>, rows |-> <<>>]

\* df[c]
ColumnValues(df, c) == [i \in 1..Len(df.rows) |-> df.rows[i][c]]

\* Series.dropna()
DropNa(vals) == SelectSeq(vals, LAMBDA v : ~IsNull(v))

\* Series.head(n)
FirstN(vals, n) == SubSeq(vals, 1, IF Len(vals) < n THEN Len(vals) ELSE n)

\* Series.notna().sum()
NotNaCount(vals) == Len(DropNa(vals))

\* the column _coerce_column_types makes of a column: a datetime column is
\* turned into strings, a non-object column is kept, an object column whose
\* non-null values all parse as numbers becomes numeric (int64 when it has
\* no null, float64 otherwise), any other object column is turned into
\* strings
CoerceColumn(dtype, vals) ==
    LET numeric_series == [i \in 1..Len(vals) |-> to_numeric(vals[i])]
        as_str == [i \in 1..Len(vals) |-> Text(Str(vals[i]))]
        has_null == \E i \in 1..Len(vals) : IsNull(numeric_series[i])
    IN
    IF dtype = "datetime64"
    THEN [dtype |-> "object", vals |-> as_str]
    ELSE IF dtype # "object"
    THEN [dtype |-> dtype, vals |-> vals]
    ELSE IF NotNaCount(numeric_series) = NotNaCount(vals)
    THEN [dtype |-> IF has_null THEN "float64" ELSE "int64",
          vals |-> [i \in 1..Len(vals) |->
                      IF has_null /\ IsNumber(numeric_series[i])
                      THEN Float64(numeric_series[i].n)
                      ELSE numeric_series[i]]]
    ELSE [dtype |-> "object", vals |-> as_str]

\* _coerce_column_types
coerce_column_types(df) ==
    LET col(c) == CoerceColumn(df.dtypes[c], ColumnValues(df, c)) IN
    [columns |-> df.columns,
     dtypes |-> [c \in DOMAIN df.dtypes |-> col(c).dtype],
     rows |-> [i \in 1..Len(df.rows) |->
                 [c \in DOMAIN df.dtypes |-> col(c).vals[i]]]]

\* df.select_dtypes(include=['float64', 'int64']).columns.tolist()
NumericColumns(df) ==
    SelectSeq(df.columns, LAMBDA c : df.dtypes[c] \in {"float64", "int64"})

\* list(df.columns)
Columns(df) == df.columns

\* pd.to_datetime(s, errors='raise') returns, for the texts of the model
is_date_string(s) == s \in {"Jan 2024", "2024-01-05", "10 mar", "2024"}

\* re.search(r'[a-zA-Z]', s)
HasLetter(s) ==
    \E i \in 1..Len(Chars(s)) :
        Chars(s)[i] \in Range(LowerCase) \cup Range(UpperCase)

months ==
    <<<<"j", "a", "n">>,
    <<"f", "e", "b">>,
    <<"m", "a", "r">>,
    <<"a", "p", "r">>,
    <<"m", "a", "y">>,
    <<"j", "u", "n">>,
    <<"j", "u", "l">>,
    <<"a", "u", "g">>,
    <<"s", "e", "p">>,
    <<"o", "c", "t">>,
    <<"n", "o", "v">>,
    <<"d", "e", "c">>,
    <<"j", "a", "n", "u", "a", "r", "y">>,
    <<"f", "e", "b", "r", "u", "a", "r", "y">>,
    <<"m", "a", "r", "c", "h">>,
    <<"a", "p", "r", "i", "l">>,
    <<"j", "u", "n", "e">>,
    <<"j", "u", "l", "y">>,
    <<"a", "u", "g", "u", "s", "t">>,
    <<"s", "e", "p", "t", "e", "m", "b", "e", "r">>,
    <<"o", "c", "t", "o", "b", "e", "r">>,
    <<"n", "o", "v", "e", "m", "b", "e", "r">>,
    <<"d", "e", "c", "e", "m", "b", "e", "r">>>>

\* contains_month_name: true of a text without letters, too
contains_month_name(s) ==
    IF ~HasLetter(s)
    THEN TRUE
    ELSE \E k \in 1..Len(months) : Contains(Lower(Chars(s)), months[k])

\* patterns of possible_date_columns, searched with re.I
date_name_tokens ==
    <<<<"d", "a", "t", "e">>,
    <<"t", "i", "m", "e">>,
    <<"y", "e", "a", "r">>,
    <<"y", "r">>,
    <<"d", "a", "y">>,
    <<"m", "o", "n", "t", "h">>,
    <<"d", "t">>>>

NameFlag(col) ==
    \E k \in 1..Len(date_name_tokens) :
        Contains(Lower(Chars(col)), date_name_tokens[k])

sample_size == 5
parse_threshold == 3

\* sample_values of possible_date_columns
SampleValues(df, col) ==
    LET sample == FirstN(DropNa(ColumnValues(df, col)), sample_size) IN
    [i \in 1..Len(sample) |-> Str(sample[i])]

\* a mutation of IsDateCandidate: parse successes count only under a date
\* name
IsDateCandidateNamedOnly(df, col) ==
    LET sample_values == SampleValues(df, col)
        parse_success ==
            Cardinality({i \in 1..Len(sample_values) :
                            is_date_string(sample_values[i])})
        month_flag ==
            \E i \in 1..Len(sample_values) : contains_month_name(sample_values[i])
    IN
    NameFlag(col) /\ (month_flag \/ parse_success >= parse_threshold)

\* the test possible_date_columns makes of one column
IsDateCandidate(df, col) ==
    LET sample_values == SampleValues(df, col)
        parse_success ==
            Cardinality({i \in 1..Len(sample_values) :
                            is_date_string(sample_values[i])})
        month_flag ==
            \E i \in 1..Len(sample_values) : contains_month_name(sample_values[i])
        value_flag == parse_success >= parse_threshold
    IN
    (NameFlag(col) /\ month_flag) \/ value_flag

\* possible_date_columns
PossibleDateColumns(df) ==
    SelectSeq(df.columns, LAMBDA c : IsDateCandidate(df, c))

\* the rows of a table given as tuples in column order
RowsOf(columns, tuples) ==
    [i \in 1..Len(tuples) |->
        [c \in Range(columns) |->
            tuples[i][CHOOSE j \in 1..Len(columns) : columns[j] = c]]]

\* the frame pd.read_csv(..., dtype=object) reads from a file's bytes: every
\* cell is a text or, where the file has nothing between the commas, null.
\* dated.csv has a month column, repeat.csv a country in two rows and a row
\* without country, blank.csv a column without any value, years.csv a column
\* of years, padded.csv a blank before the name of its month column.
RawTable(f) ==
    LET columns ==
            CASE f = "dated.csv" -> <<"Month", "Country", "Revenue">>
              [] f = "repeat.csv" -> <<"Month", "Country", "Revenue">>
              [] f = "blank.csv" -> <<"Country", "Notes", "Revenue">>
              [] f = "years.csv" -> <<"Year", "Country", "Revenue">>
              [] f = "padded.csv" -> <<" Month", "Country", "Revenue">>
              [] OTHER -> <<"Country", "Revenue">>
        tuples ==
            CASE f = "dated.csv" ->
                    <<<<Text("Jan 2024"), Text("UK"), Text("100")>>,
                      <<Text("Jan 2024"), Text("FR"), Text("50")>>>>
              [] f = "repeat.csv" ->
                    <<<<Text("Jan 2024"), Text("UK"), Text("100")>>,
                      <<Text("Jan 2024"), NaN, Text("100")>>,
                      <<Text("Jan 2024"), Text("FR"), Text("50")>>,
                      <<Text("2024-01-05"), Text("UK"), Text("50")>>>>
              [] f = "blank.csv" ->
                    <<<<Text("UK"), NaN, Text("100")>>,
                      <<Text("FR"), NaN, Text("50")>>>>
              [] f = "years.csv" ->
                    <<<<Text("2024"), Text("UK"), Text("100")>>,
                      <<Text("2024"), Text("FR"), Text("50")>>,
                      <<Text("2024"), Text("UK"), Text("50")>>>>
              [] f = "padded.csv" ->
                    <<<<Text("Jan 2024"), Text("UK"), Text("100")>>,
                      <<Text("Jan 2024"), Text("FR"), Text("50")>>>>
              [] OTHER ->
                    <<<<Text("UK"), Text("100")>>, <<Text("FR"), Text("50")>>>>
    IN
    [columns |-> columns,
     dtypes |-> [c \in Range(columns) |-> "object"],
     rows |-> RowsOf(columns, tuples)]

\* the table _process_uploaded_file makes of a CSV file
ParsedTable(f) == coerce_column_types(RawTable(f))

AggFuncs == {"sum", "count"}
PivotNames == {"Pivot 1"}


(***************************************************************************)
(* State                                                                   *)
(***************************************************************************)
VARIABLES
    \* st.session_state
    datasets,            \* filename -> dataset entry
    active_dataset,
    last_uploaded_file,
    original_df,         \* NoTable (no such key), or the table cached by
                         \* _process_uploaded_file
    pivot_tables,        \* pivot key -> pivot entry
    pivot_order,         \* the keys of pivot_tables in dict (insertion) order
    active_pivot,
    selected_pivot,      \* value of the "Select pivot table to query" selectbox
    messages,            \* the message log
    execute_retry,
    retry_query,
    \* the handling of one question
    pc,                  \* "idle", "analyse", "synthesise", "execute",
                         \* "respond", "interpret", "returned"
    query,               \* the question being handled
    query_engine,        \* the engine handed to execute_query
    via,                 \* "chat" (execute_overall_query) or "retry" (execute_query)
    context,             \* build_chat_context's result
    retry_count,
    final_query,         \* what the next attempt sends
    schema_analysis,     \* _analyse_query's result of the current attempt
    pandas_instructions, \* the synthesized expression of the current attempt
    pandas_output,       \* _process_pandas_instructions' result
    previous,            \* previous_result / previous_pandas_code
    result,              \* the (success, response, error) tuple returned
    \* what happened while handling the question (history)
    sent,                \* final_query of each query_engine.query call, in order
    raised,              \* message of each exception query() raised, in order
    eval_faulted,        \* eval() raised in the current attempt
    llm_calls,           \* language-model calls made for this question
    pivot_call,          \* arguments of the latest create_pivot call
    \* one call of a function of the table code, taken on its own
    calc,                \* the function, its arguments, and its result once
                         \* the call was made
    \* one call of upload_to_s3: the caller and its worker thread
    upload_call,
    \* the FastAPI wrapper process: app_state, the startup thread, the
    \* shutdown handler and the Streamlit subprocesses
    fastapi

session_vars ==
    <<datasets, active_dataset, last_uploaded_file, original_df, pivot_tables,
      pivot_order, active_pivot, selected_pivot, messages, execute_retry,
      retry_query>>

question_vars ==
    <<pc, query, query_engine, via, context, retry_count, final_query, schema_analysis,
      pandas_instructions, pandas_output, previous, result, sent, raised,
      eval_faulted, llm_calls>>

\* the calls and processes that are looked at on their own
aside_vars == <<calc, upload_call, fastapi>>

vars == <<session_vars, question_vars, pivot_call, aside_vars>>

(***************************************************************************)
(* Messages                                                                *)
(***************************************************************************)
error_msg == "I couldn't process that question. Please try rephrasing."

UserMessage(prompt) ==
    [role |-> "user", content |-> prompt, pandas_code |-> Absent,
     explanation |-> Absent, error |-> FALSE]

\* system_msg of _handle_pivot_change
SystemMessage(pivot_data, dataset_name) ==
    [role |-> "assistant",
     content |-> "I'm now analyzing the pivot table '" \o pivot_data.name
                 \o "' from dataset '" \o dataset_name \o "'",
     pandas_code |-> Absent, explanation |-> Absent, error |-> FALSE]

\* a mutation of SuccessMessage: the answer is stored without its expression
SuccessMessageNoCode(response) ==
    [role |-> "assistant", content |-> response.response,
     pandas_code |-> "", explanation |-> None, error |-> FALSE]

\* the message of _handle_successful_response
SuccessMessage(response) ==
    [role |-> "assistant", content |-> response.response,
     pandas_code |-> response.pandas_instruction_str,
     explanation |-> None, error |-> FALSE]

\* the message of _handle_error_response
\* the failure message without its error flag
ErrorMessageUnflagged ==
    [role |-> "assistant", content |-> error_msg, pandas_code |-> Absent,
     explanation |-> Absent, error |-> FALSE]

ErrorMessage ==
    [role |-> "assistant", content |-> error_msg, pandas_code |-> Absent,
     explanation |-> Absent, error |-> TRUE]

\* Python truth of an optional string field
Truthy(v) == v \notin {Absent, None, ""}

HasCode(msg) == msg.role = "assistant" /\ Truthy(msg.pandas_code)

\* last_assistant_idx of _render_chat_messages, 1-based; 0 stands for -1
LastAssistantIdx(msgs) ==
    IF \E i \in 1..Len(msgs) : HasCode(msgs[i])
    THEN CHOOSE i \in 1..Len(msgs) :
            /\ HasCode(msgs[i])
            /\ \A j \in (i + 1)..Len(msgs) : ~HasCode(msgs[j])
    ELSE 0

\* list.pop(i), 1-based
Pop(msgs, i) == [j \in 1..(Len(msgs) - 1) |-> IF j < i THEN msgs[j] ELSE msgs[j + 1]]

(***************************************************************************)
(* Dataset registry: upload of a CSV file                                  *)
(***************************************************************************)
NoDatasets == [k \in {} |-> None]

\* the entry _finalise_dataset_storage stores
DatasetEntry(filename, df) ==
    [df |-> df, filename |-> filename, columns |-> Columns(df),
     numeric_columns |-> NumericColumns(df)]

(***************************************************************************)
(* Dataset registry: a workbook with several sheets                        *)
(***************************************************************************)
\* xls.sheet_names of an uploaded workbook
ExcelSheetNames(f) == IF f = "book.xlsx" THEN <<"Q1", "Q2">> ELSE <<>>

\* the frame pd.read_excel(..., sheet_name=sheet_name, dtype=object) reads:
\* sheet Q1 holds the sales of the UK, sheet Q2 those of France
RawSheet(f, sheet_name) ==
    LET columns == <<"Country", "Revenue">>
        tuples == IF sheet_name = "Q1"
                  THEN <<<<Text("UK"), Text("100")>>>>
                  ELSE <<<<Text("FR"), Text("50")>>>>
    IN
    [columns |-> columns,
     dtypes |-> [c \in Range(columns) |-> "object"],
     rows |-> RowsOf(columns, tuples)]

\* the entry _process_excel_file stores for a workbook of several sheets; the
\* bytes of a file are told by its name
ExcelEntry(f) ==
    [filename |-> f, sheet_names |-> ExcelSheetNames(f), file_buffer |-> f,
     processed_sheets |-> <<>>, pending_sheet_selection |-> TRUE]

\* os.path.splitext(uploaded_file.name)[1].lower()
file_ext(f) == IF f \in {"book.xlsx"} THEN ".xlsx" ELSE ".csv"

\* a mutation of check_if_new_upload: every upload counts as new
EveryUploadIsNew(registry, filename) == TRUE

\* what _check_if_new_upload returns
check_if_new_upload(registry, filename) == filename \notin DOMAIN registry

\* handle_file_upload(uploaded_file) on a session [datasets, active_dataset,
\* last_uploaded_file, original_df], for a CSV file or a workbook of several
\* sheets. s3_ok is what upload_to_s3 returns; parse_ok tells whether
\* pd.read_csv, or pd.ExcelFile, returned. The result tells what the call
\* returned ("raised" when pd.ExcelFile's exception left it), how often
\* upload_to_s3 was called, whether one of the _process_ functions was
\* called, and the session the call leaves.
handle_file_upload(session, f, s3_ok, parse_ok) ==
    LET checked == [session EXCEPT !.last_uploaded_file = f]
        registering(entry) ==
            [k \in DOMAIN session.datasets \cup {f} |->
                IF k = f THEN entry ELSE session.datasets[k]]
        outcome(returned, s3_uploads, processed, left) ==
            [returned |-> returned, s3_uploads |-> s3_uploads,
             processed |-> processed, session |-> left]
    IN
    IF f = None
    THEN outcome("False", 0, FALSE, session)
    ELSE IF ~check_if_new_upload(session.datasets, f)
    THEN outcome("True", 0, FALSE, checked)
    ELSE IF ~s3_ok
    THEN outcome("False", 1, FALSE, checked)
    ELSE IF file_ext(f) \in {".xls", ".xlsx"}
    THEN IF ~parse_ok
         THEN outcome("raised", 1, TRUE, checked)
         ELSE outcome("True", 1, TRUE,
                      IF f \notin DOMAIN session.datasets
                      THEN [checked EXCEPT !.datasets = registering(ExcelEntry(f))]
                      ELSE checked)
    ELSE IF session.original_df = NoTable
    THEN IF ~parse_ok
         THEN outcome("False", 1, TRUE, checked)
         ELSE outcome("True", 1, TRUE,
                      [checked EXCEPT
                          !.original_df = ParsedTable(f),
                          !.datasets = registering(DatasetEntry(f, ParsedTable(f))),
                          !.active_dataset = f])
    ELSE outcome("True", 1, TRUE,
                 [checked EXCEPT
                     !.datasets = registering(DatasetEntry(f, session.original_df)),
                     !.active_dataset = f])

\* the upload tab's call of handle_file_upload in the session
HandleFileUpload(f, s3_ok, parse_ok) ==
    LET call == handle_file_upload(
                    [datasets |-> datasets, active_dataset |-> active_dataset,
                     last_uploaded_file |-> last_uploaded_file,
                     original_df |-> original_df],
                    f, s3_ok, parse_ok)
    IN
    /\ datasets' = call.session.datasets
    /\ active_dataset' = call.session.active_dataset
    /\ last_uploaded_file' = call.session.last_uploaded_file
    /\ original_df' = call.session.original_df

\* dataset.get('pending_sheet_selection', False)
PendingSheetSelection(dataset) ==
    IF "pending_sheet_selection" \in DOMAIN dataset
    THEN dataset.pending_sheet_selection ELSE FALSE

\* DataService.get_excel_files_needing_processing: the keys it lists
get_excel_files_needing_processing(registry) ==
    {key \in DOMAIN registry :
        /\ "sheet_names" \in DOMAIN registry[key]
        /\ \/ PendingSheetSelection(registry[key])
           \/ Len(registry[key].processed_sheets) < Len(registry[key].sheet_names)}

\* DataService.get_processed_datasets: the keys of the dict it returns
get_processed_datasets(registry) ==
    {key \in DOMAIN registry :
        "df" \in DOMAIN registry[key] /\ ~PendingSheetSelection(registry[key])}

\* a mutation of AvailableSheets: processed sheets stay on offer
EverySheet(dataset) == dataset.sheet_names

\* the sheets _show_sheet_selector offers
AvailableSheets(dataset) ==
    SelectSeq(dataset.sheet_names,
              LAMBDA s : s \notin Range(dataset.processed_sheets))

SheetKey(excel_key, sheet_name) == excel_key \o "_" \o sheet_name

\* DataService.process_excel_sheet when pd.read_excel returns: the registry
\* it leaves
process_excel_sheet(registry, excel_key, sheet_name) ==
    LET dataset == registry[excel_key]
        df == coerce_column_types(RawSheet(dataset.file_buffer, sheet_name))
        sheet_key == SheetKey(excel_key, sheet_name)
        entry == [df |-> df,
                  filename |-> dataset.filename \o " (Sheet: " \o sheet_name \o ")",
                  source_file |-> excel_key, sheet_name |-> sheet_name,
                  columns |-> Columns(df), numeric_columns |-> NumericColumns(df)]
        processed_sheets == Append(dataset.processed_sheets, sheet_name)
        updated == [dataset EXCEPT
                       !.processed_sheets = processed_sheets,
                       !.pending_sheet_selection =
                           IF Len(processed_sheets) = Len(dataset.sheet_names)
                           THEN FALSE ELSE dataset.pending_sheet_selection]
    IN
    [k \in DOMAIN registry \cup {sheet_key} |->
        IF k = sheet_key THEN entry
        ELSE IF k = excel_key THEN updated
        ELSE registry[k]]


(***************************************************************************)
(* Pivot engine and the pivot page                                         *)
(***************************************************************************)
NoPivots == [k \in {} |-> None]


NoCall == [rows |-> <<>>, values |-> <<>>, aggfunc |-> None]

\* all sub-lists of a list of at most two columns, in list order
SubLists(cols) ==
    {<<>>} \cup {<<cols[i]>> : i \in 1..Len(cols)}
           \cup (IF Len(cols) = 2 THEN {cols} ELSE {})

\* str(col).strip(): of the names of the model only " Month" has blanks
\* around it
Strip(col) == IF col = " Month" THEN "Month" ELSE col

\* [str(col).strip() for col in names if col is not None and str(col).strip()]
StrippedNames(names) ==
    SelectSeq([i \in 1..Len(names) |-> Strip(names[i])], LAMBDA c : c # "")

\* numeric_columns, date_columns and non_numeric_columns of show_pivot_page
PageDateColumns(dataset) == PossibleDateColumns(dataset.df)

PageNumericColumns(dataset) ==
    LET date_columns == Range(PageDateColumns(dataset)) IN
    SelectSeq(StrippedNames(dataset.numeric_columns),
              LAMBDA c : c \notin date_columns)

PageNonNumericColumns(dataset) ==
    LET date_columns == Range(PageDateColumns(dataset))
        numeric_columns == Range(PageNumericColumns(dataset))
    IN
    SelectSeq(StrippedNames(dataset.columns),
              LAMBDA c : c \notin numeric_columns /\ c \notin date_columns)

NoPivotResult ==
    [ok |-> FALSE, table |-> NoTable, index |-> <<>>, values |-> <<>>,
     aggfunc |-> None]

\* the texts of the model in the order Python compares strings
text_order ==
    <<" Month", "10 mar", "100", "2024", "2024-01-05", "50", "Country", "FR", "Jan 2024", "Month", "Notes", "Revenue", "UK", "Whole", "Year", "abc", "mayhem", "nan", "sum">>

\* the rank pandas sorts a group key's component by
Rank(v) ==
    IF IsNumber(v)
    THEN v.n
    ELSE CHOOSE i \in 1..Len(text_order) : text_order[i] = Str(v)

\* tuple comparison of two group keys
KeyLess(a, b) ==
    \E i \in 1..Len(a) :
        /\ Rank(a[i]) < Rank(b[i])
        /\ \A j \in 1..(i - 1) : a[j] = b[j]

\* the keys of a set in ascending order
RECURSIVE SortKeys(_)
SortKeys(keys) ==
    IF keys = {}
    THEN <<>>
    ELSE LET least == CHOOSE k \in keys : \A o \in keys \ {k} : KeyLess(k, o)
         IN <<least>> \o SortKeys(keys \ {least})

\* a mutation of FilterRows: the values are compared as they are (isin
\* without astype(str))
FilterRowsRaw(rows, f) ==
    SelectSeq(rows,
              LAMBDA r : IF f.list
                         THEN r[f.column] \in f.allowed
                         ELSE r[f.column] = f.allowed)

\* the rows one filter of create_pivot keeps: a list of values is compared
\* as strings (astype(str).isin), a single value as it is (==)
FilterRows(rows, f) ==
    SelectSeq(rows,
              LAMBDA r : IF f.list
                         THEN Str(r[f.column]) \in {Str(v) : v \in f.allowed}
                         ELSE r[f.column] = f.allowed)

\* the loop over filter.items()
RECURSIVE ApplyFilters(_, _)
ApplyFilters(rows, filter) ==
    IF filter = <<>>
    THEN rows
    ELSE ApplyFilters(FilterRows(rows, Head(filter)), Tail(filter))

RECURSIVE SumOf(_)
SumOf(vals) == IF vals = <<>> THEN 0 ELSE Head(vals).n + SumOf(Tail(vals))

\* the aggregate of one value column over the rows of one group; nulls are
\* skipped
Aggregate(aggfunc, dtype, vals) ==
    CASE aggfunc = "count" -> Int64(NotNaCount(vals))
      [] aggfunc = "sum" ->
            IF dtype = "float64"
            THEN Float64(SumOf(DropNa(vals)))
            ELSE Int64(SumOf(DropNa(vals)))

\* the group key of a row
KeyOf(r, index) == [i \in 1..Len(index) |-> r[index[i]]]

\* a mutation of GroupKeys: groupby(sort=False), the groups in the order in
\* which their first rows stand
GroupKeysAsEncountered(rows, index) ==
    LET keyed == SelectSeq(rows,
                           LAMBDA r : \A i \in 1..Len(index) : ~IsNull(r[index[i]]))
        first == SelectSeq([i \in 1..Len(keyed) |-> i],
                           LAMBDA i : \A j \in 1..(i - 1) :
                                         KeyOf(keyed[j], index) # KeyOf(keyed[i], index))
    IN [i \in 1..Len(first) |-> KeyOf(keyed[first[i]], index)]

\* the groups of pd.pivot_table: the distinct keys of the rows that have no
\* null in their key, in ascending order (sort=True)
GroupKeys(rows, index) ==
    SortKeys({KeyOf(r, index) :
                 r \in {q \in Range(rows) :
                           \A i \in 1..Len(index) : ~IsNull(q[index[i]])}})

\* the value columns of the result: sort_index(axis=1) puts them in name order
SortedNames(values) ==
    LET ranked == SortKeys({<<Text(v)>> : v \in Range(values)}) IN
    [i \in 1..Len(ranked) |-> ranked[i][1].s]

\* pd.pivot_table(df, values, index, columns=[], aggfunc, fill_value=0)
\* followed by reset_index()
PivotTable(df, rows, index, values, aggfunc) ==
    LET keys == GroupKeys(rows, index)
        names == SortedNames(values)
        columns == index \o names
        group(k) == SelectSeq(rows, LAMBDA r : KeyOf(r, index) = k)
        cell(k, c) ==
            IF c \in Range(index)
            THEN k[CHOOSE i \in 1..Len(index) : index[i] = c]
            ELSE Aggregate(aggfunc, df.dtypes[c],
                           [i \in 1..Len(group(k)) |-> group(k)[i][c]])
    IN
    [columns |-> columns,
     dtypes |-> [c \in Range(columns) |->
                    IF c \in Range(index) \/ aggfunc = "sum"
                    THEN df.dtypes[c] ELSE "int64"],
     rows |-> [i \in 1..Len(keys) |-> [c \in Range(columns) |-> cell(keys[i], c)]]]

\* create_pivot: the filters, then pd.pivot_table.  With no group keys, or
\* with a column the frame does not have, pandas raises, and the function
\* then fails on its unbound pivot_table: ok = FALSE stands for that fault.
create_pivot(df, rows, values, filter, aggfunc) ==
    IF \/ rows = <<>>
       \/ \E i \in 1..Len(filter) : filter[i].column \notin Range(df.columns)
       \/ ~(Range(rows) \cup Range(values) \subseteq Range(df.columns))
    THEN NoPivotResult
    ELSE [ok |-> TRUE,
          table |-> PivotTable(df, ApplyFilters(df.rows, filter), rows, values,
                               aggfunc),
          index |-> rows, values |-> values, aggfunc |-> aggfunc]

\* _get_schema: the kind of each column of the pivot result
GetSchema(pivot_result) ==
    [index |-> pivot_result.index, numeric |-> pivot_result.values]

\* create_query_engine / CustomPandasQueryEngine.__init__: the engine is bound
\* to the pivot result and to its schema.  (query() rebinds _pandas_prompt
\* before every use, so that field carries nothing between questions and is
\* not kept.)
CreateQueryEngine(pivot_result) ==
    [created |-> TRUE, df |-> pivot_result, schema |-> GetSchema(pivot_result)]

\* a pivot entry without the 'query_engine' key
NoEngine ==
    [created |-> FALSE, df |-> NoPivotResult, schema |-> GetSchema(NoPivotResult)]

\* 'query_engine' in pivot_data
HasQueryEngine(pivot_data) == pivot_data.query_engine.created

\* a mutation of InitialiseQueryEngine: an engine is created on every run of
\* the query page
InitialiseQueryEngineAlways(pivot_data) ==
    [pivot_data EXCEPT !.query_engine = CreateQueryEngine(pivot_data.result),
                       !.engines_created = @ + 1]

\* QueryService.initialise_query_engine.  engines_created is history: the
\* number of create_query_engine calls made for this entry.
InitialiseQueryEngine(pivot_data) ==
    IF ~HasQueryEngine(pivot_data)
    THEN [pivot_data EXCEPT !.query_engine = CreateQueryEngine(pivot_data.result),
                            !.engines_created = @ + 1]
    ELSE pivot_data

\* st.selectbox over the pivot keys: the value kept from the previous run
\* when it is still an option, the first option otherwise
SelectboxValue(order, sel) ==
    IF sel \in Range(order) THEN sel ELSE order[1]

\* QueryUI.show_query_page up to the chat input, run on the pivot tables pt
\* (in dict order `order`) with active pivot ap: _render_pivot_selection and
\* _handle_pivot_change
ShowQueryPage(pt, order, ap, sel) ==
    /\ pivot_order' = order
    /\ IF order = <<>>
       THEN /\ pivot_tables' = pt
            /\ active_pivot' = ap
            /\ selected_pivot' = None
            /\ messages' = messages
       ELSE LET s == SelectboxValue(order, sel) IN
            /\ selected_pivot' = s
            /\ messages' =
                  IF ap # s
                  THEN <<SystemMessage(pt[s], datasets'[pt[s].source_dataset].filename)>>
                  ELSE messages
            /\ active_pivot' = s
            /\ pivot_tables' = [pt EXCEPT ![s] = InitialiseQueryEngine(pt[s])]

(***************************************************************************)
(* The orchestrator's pure parts                                           *)
(***************************************************************************)
NoResponse == [response |-> None, pandas_instruction_str |-> None]
NoResult == [success |-> FALSE, response |-> NoResponse, error |-> None]
NoPrevious == [result |-> None, pandas_code |-> None]

\* what the language model may return: a synthesized expression, an answer
Exprs == {"e1"}
ResponseTexts == {"", "42"}

no_code_available == "# No code available"

context_window == 10

\* a mutation of RelevantMessages: the whole log is rendered
RelevantMessagesAll(msgs) == msgs

\* relevant_messages of build_chat_context
RelevantMessages(msgs) ==
    IF Len(msgs) > context_window
    THEN SubSeq(msgs, Len(msgs) - context_window + 1, Len(msgs))
    ELSE msgs

\* the lines build_chat_context renders of one message
RenderMessage(msg) ==
    <<[tag |-> IF msg.role = "user" THEN "User" ELSE "Assistant",
       text |-> <<msg.content>>]>>
    \o (IF msg.role = "assistant" /\ Truthy(msg.pandas_code)
        THEN <<[tag |-> "Code used", text |-> <<msg.pandas_code>>]>>
        ELSE <<>>)

RECURSIVE RenderMessages(_)
RenderMessages(msgs) ==
    IF msgs = <<>>
    THEN <<>>
    ELSE RenderMessage(Head(msgs)) \o RenderMessages(Tail(msgs))

\* ', '.join(names) if names else 'None'
JoinedOrNone(names) == IF names # <<>> THEN names ELSE <<"None">>

\* the "Pivot table configuration" lines
RenderConfig(config) ==
    <<[tag |-> "Rows", text |-> JoinedOrNone(config.rows)],
      [tag |-> "Values", text |-> JoinedOrNone(config.values)],
      [tag |-> "Aggregation", text |-> <<config.aggfunc>>]>>

\* build_chat_context, as the lines of the text it returns: the preamble
\* naming the pivot, the relevant messages, the configuration
ChatContext(msgs, pivot_data) ==
    <<[tag |-> "Preamble",
       text |-> <<"You are analyzing a pivot table named '"
                     \o pivot_data.name \o "'">>]>>
    \o RenderMessages(RelevantMessages(msgs))
    \o RenderConfig(pivot_data.config)

\* build_chat_context as the retry logic sees it: a non-empty text, told by
\* its first line
BuildChatContext(msgs, pivot_data) == ChatContext(msgs, pivot_data)[1].text[1]

\* the initial final_query of execute_query: the context wrapped around the
\* question when a context is given, the bare question otherwise
InitialFinalQuery(ctx) == IF Truthy(ctx) THEN "full" ELSE "bare"

\* a mutation of NextFinalQuery: the fallback replaces the context after the
\* first failure already
NextFinalQueryAfterFirst(rc, ctx, fq) ==
    IF rc = 1 /\ Truthy(ctx) THEN "fallback" ELSE fq

\* lines 37-38 of execute_query, run with the incremented retry_count rc
NextFinalQuery(rc, ctx, fq) ==
    IF rc = 2 /\ Truthy(ctx) THEN "fallback" ELSE fq

\* a mutation of RetriesExhausted: one attempt more is allowed
RetriesExhaustedLate(rc) == rc > max_retries

\* line 39 of execute_query
RetriesExhausted(rc) == rc >= max_retries

\* str(e) of line 40
ExhaustedError(e) == e

\* the loop of provide_analysis_on_previous_results over reversed(messages):
\* the index of the last assistant message (every message has "content")
PreviousIdx(msgs) ==
    IF \E i \in 1..Len(msgs) : msgs[i].role = "assistant"
    THEN CHOOSE i \in 1..Len(msgs) :
            /\ msgs[i].role = "assistant"
            /\ \A j \in (i + 1)..Len(msgs) : msgs[j].role # "assistant"
    ELSE 0

\* a mutation of PreviousCode: the placeholder is returned whatever the
\* message carries
PreviousCodePlaceholder(msg) == no_code_available

\* message.get("pandas_code", "# No code available")
PreviousCode(msg) ==
    IF msg.pandas_code = Absent THEN no_code_available ELSE msg.pandas_code

\* previous_result and previous_pandas_code after the loop
FindPrevious(msgs) ==
    IF PreviousIdx(msgs) = 0
    THEN NoPrevious
    ELSE [result |-> msgs[PreviousIdx(msgs)].content,
          pandas_code |-> PreviousCode(msgs[PreviousIdx(msgs)])]

\* a mutation of NextStage: the response is synthesized before the
\* expression was executed
NextStageSkipsExecution(stage) ==
    CASE stage = "analyse" -> "synthesise"
      [] stage = "synthesise" -> "respond"
      [] stage = "execute" -> "respond"
      [] stage = "respond" -> "returned"

\* the stage that follows a stage that returned, within one call of
\* CustomPandasQueryEngine.query: _analyse_query, then the parent's query:
\* code synthesis, execution of the expression, response synthesis
NextStage(stage) ==
    CASE stage = "analyse" -> "synthesise"
      [] stage = "synthesise" -> "execute"
      [] stage = "execute" -> "respond"
      [] stage = "respond" -> "returned"

\* _process_pandas_instructions: eval's value as a string, or the error
\* string of the except branch when eval raised (fault)
ProcessPandasInstructions(pandas_instr, fault) ==
    IF fault
    THEN "Error evaluating def _process_pandas_instructionn"
    ELSE "value of " \o pandas_instr

(***************************************************************************)
(* Initial state: a fresh session (initialise_extended_session_state,      *)
(* _initialise_messages)                                                   *)
(***************************************************************************)
\* no call of a table function is being looked at
NoCalc == [fn |-> None, args |-> <<>>, done |-> FALSE, out |-> None]

\* upload_to_s3 has not been called. caller and worker are the positions of
\* the calling thread and of perform_upload's thread; file_buffer is
\* perform_upload's local variable; transfer tells what became of
\* upload_fileobj (history)
NoUploadCall ==
    [caller |-> "idle", worker |-> "unborn", file_buffer |-> "unbound",
     transfer |-> "none", upload_complete |-> FALSE, upload_success |-> FALSE,
     progress |-> 0, returned |-> None]

\* the wrapper module is imported and uvicorn has not yet sent an event.
\* thread and handler are the positions of start_streamlit's thread and of
\* shutdown_event; process is the state of the Streamlit subprocess;
\* requests counts the requests answered
NotServing ==
    [streamlit_process |-> None, thread |-> "unborn", handler |-> "idle",
     process |-> "none", requests |-> 0]

QuestionIdle ==
    /\ pc' = "idle"
    /\ query' = None
    /\ query_engine' = NoEngine
    /\ via' = None
    /\ context' = None
    /\ retry_count' = 0
    /\ final_query' = None
    /\ schema_analysis' = None
    /\ pandas_instructions' = None
    /\ pandas_output' = None
    /\ previous' = NoPrevious
    /\ result' = NoResult
    /\ sent' = <<>>
    /\ raised' = <<>>
    /\ eval_faulted' = FALSE
    /\ llm_calls' = 0

\* st.session_state of a fresh session
FreshSession ==
    /\ datasets = NoDatasets
    /\ active_dataset = None
    /\ last_uploaded_file = None
    /\ original_df = NoTable
    /\ pivot_tables = NoPivots
    /\ pivot_order = <<>>
    /\ active_pivot = None
    /\ selected_pivot = None
    /\ messages = <<>>
    /\ execute_retry = FALSE
    /\ retry_query = Absent
    /\ pc = "idle"
    /\ query = None
    /\ query_engine = NoEngine
    /\ via = None
    /\ context = None
    /\ retry_count = 0
    /\ final_query = None
    /\ schema_analysis = None
    /\ pandas_instructions = None
    /\ pandas_output = None
    /\ previous = NoPrevious
    /\ result = NoResult
    /\ sent = <<>>
    /\ raised = <<>>
    /\ eval_faulted = FALSE
    /\ llm_calls = 0
    /\ pivot_call = NoCall

Init ==
    /\ FreshSession
    /\ calc = NoCalc
    /\ upload_call = NoUploadCall
    /\ fastapi = NotServing

\* the user can act: no question is being handled and no retry is pending
UserTurn == pc = "idle" /\ ~execute_retry

(***************************************************************************)
(* Session events                                                          *)
(***************************************************************************)
\* the upload tab receives a file
UploadFileOf(files) ==
    /\ UserTurn
    /\ \E f \in files, s3_ok \in BOOLEAN, parse_ok \in BOOLEAN :
          HandleFileUpload(f, s3_ok, parse_ok)
    /\ ShowQueryPage(pivot_tables, pivot_order, active_pivot, selected_pivot)
    /\ UNCHANGED <<execute_retry, retry_query, question_vars, pivot_call>>
    /\ UNCHANGED aside_vars

UploadFile == UploadFileOf(Files)

\* the pivot tab's "Create Pivot Table" button, with the selections of the
\* run: the preview (lines 419-429), the guard of line 438, create_pivot and
\* the store of lines 443-462; then the query page of the same run
CreatePivotOf(names, aggfuncs) ==
    /\ UserTurn
    /\ \E sd \in get_processed_datasets(datasets) :
       LET non_numeric_columns == PageNonNumericColumns(datasets[sd])
           date_columns == PageDateColumns(datasets[sd])
           numeric_columns == PageNumericColumns(datasets[sd])
       IN
       \E name \in names, aggfunc \in aggfuncs :
       \E selected_rows \in SubLists(non_numeric_columns),
          selected_date_rows \in SubLists(date_columns) :
       LET all_selected_rows == selected_rows \o selected_date_rows
           available == SelectSeq(numeric_columns,
                                  LAMBDA c : c \notin Range(all_selected_rows))
       IN
       \E selected_values \in SubLists(available) :
       LET pivot_result ==
               create_pivot(datasets[sd].df, all_selected_rows, selected_values,
                            <<>>, aggfunc)
           pivot_key == sd \o "_" \o name
           entry == [result |-> pivot_result, name |-> name,
                     source_dataset |-> sd,
                     config |-> [rows |-> selected_rows,
                                 date_rows |-> selected_date_rows,
                                 values |-> selected_values,
                                 filter |-> <<>>, aggfunc |-> aggfunc],
                     query_engine |-> NoEngine, engines_created |-> 0]
           stored == all_selected_rows # <<>> /\ pivot_result.ok
           pt == IF stored
                 THEN [k \in DOMAIN pivot_tables \cup {pivot_key} |->
                          IF k = pivot_key THEN entry ELSE pivot_tables[k]]
                 ELSE pivot_tables
           order == IF stored /\ pivot_key \notin Range(pivot_order)
                    THEN Append(pivot_order, pivot_key) ELSE pivot_order
       IN
       /\ active_dataset' = sd
       /\ pivot_call' =
             IF all_selected_rows # <<>>
             THEN [rows |-> all_selected_rows, values |-> selected_values,
                   aggfunc |-> aggfunc]
             ELSE pivot_call
       /\ UNCHANGED <<datasets, last_uploaded_file, original_df>>
       /\ ShowQueryPage(pt, order,
                        IF stored THEN pivot_key ELSE active_pivot,
                        selected_pivot)
    /\ UNCHANGED <<execute_retry, retry_query, question_vars>>
    /\ UNCHANGED aside_vars

CreatePivot == CreatePivotOf(PivotNames, AggFuncs)

\* the "Delete" button of a pivot of the active dataset, and the rerun
DeletePivot ==
    /\ UserTurn
    /\ \E k \in DOMAIN pivot_tables :
          /\ pivot_tables[k].source_dataset = active_dataset
          /\ UNCHANGED <<datasets, active_dataset, last_uploaded_file, original_df>>
          /\ ShowQueryPage([j \in DOMAIN pivot_tables \ {k} |-> pivot_tables[j]],
                           SelectSeq(pivot_order, LAMBDA j : j # k),
                           active_pivot, selected_pivot)
    /\ UNCHANGED <<execute_retry, retry_query, question_vars, pivot_call>>
    /\ UNCHANGED aside_vars

\* the user picks another pivot in the query page's selectbox (there is one
\* to pick once two pivots exist)
SelectPivot ==
    /\ UserTurn
    /\ \E k \in DOMAIN pivot_tables :
          /\ k # selected_pivot
          /\ UNCHANGED <<datasets, active_dataset, last_uploaded_file, original_df>>
          /\ ShowQueryPage(pivot_tables, pivot_order, active_pivot, k)
    /\ UNCHANGED <<execute_retry, retry_query, question_vars, pivot_call>>
    /\ UNCHANGED aside_vars

\* a mutation of CleanUpSession: the pivot tables outlive the datasets
CleanUpSessionKeepingPivots ==
    /\ UserTurn
    /\ datasets' = NoDatasets
    /\ active_dataset' = None
    /\ messages' = <<>>
    /\ UNCHANGED <<pivot_tables, pivot_order, active_pivot, selected_pivot,
                   last_uploaded_file, original_df, execute_retry, retry_query,
                   question_vars, pivot_call>>
    /\ UNCHANGED aside_vars


\* clean_up_session (logout, "Clear Session Data", inactivity timeout), and
\* the rerun
CleanUpSession ==
    /\ UserTurn
    /\ datasets' = NoDatasets
    /\ pivot_tables' = NoPivots
    /\ pivot_order' = <<>>
    /\ active_dataset' = None
    /\ active_pivot' = None
    /\ selected_pivot' = None
    /\ messages' = <<>>
    /\ UNCHANGED <<last_uploaded_file, original_df, execute_retry, retry_query,
                   question_vars, pivot_call>>
    /\ UNCHANGED aside_vars

(***************************************************************************)
(* Handling one question                                                   *)
(***************************************************************************)
UNCHANGED_session_but_messages ==
    UNCHANGED <<datasets, active_dataset, last_uploaded_file, original_df,
                pivot_tables, pivot_order, active_pivot, selected_pivot>>

\* execute_query up to its first query_engine.query call (lines 25-33)
ExecuteQueryStart(q, ctx) ==
    /\ query' = q
    /\ context' = ctx
    /\ retry_count' = 0
    /\ final_query' = InitialFinalQuery(ctx)
    /\ sent' = <<InitialFinalQuery(ctx)>>
    /\ raised' = <<>>
    /\ pc' = "analyse"
    /\ schema_analysis' = None
    /\ pandas_instructions' = None
    /\ pandas_output' = None
    /\ eval_faulted' = FALSE
    /\ previous' = NoPrevious
    /\ result' = NoResult
    /\ llm_calls' = 0

\* the chat input: _process_user_query, _execute_query, execute_overall_query
\* and, for an analytical question, provide_analysis_on_previous_results up
\* to its language-model call
ProcessUserQueryUpTo(max_log, prompts) ==
    /\ UserTurn
    /\ pivot_order # <<>>
    /\ Len(messages) + 2 <= max_log
    /\ \E prompt \in prompts :
       LET msgs == Append(messages, UserMessage(prompt))
           ctx == BuildChatContext(msgs, pivot_tables[selected_pivot])
       IN
       /\ messages' = msgs
       /\ via' = "chat"
       /\ query_engine' = pivot_tables[selected_pivot].query_engine
       /\ IF IsAnalytical(prompt)
          THEN /\ query' = prompt
               /\ context' = ctx
               /\ previous' = FindPrevious(msgs)
               /\ IF Truthy(FindPrevious(msgs).result)
                  THEN pc' = "interpret" /\ result' = NoResult
                  ELSE /\ pc' = "returned"
                       /\ result' = [success |-> FALSE, response |-> NoResponse,
                                     error |-> "No previous results to analyze"]
               /\ retry_count' = 0
               /\ final_query' = None
               /\ sent' = <<>>
               /\ raised' = <<>>
               /\ schema_analysis' = None
               /\ pandas_instructions' = None
               /\ pandas_output' = None
               /\ eval_faulted' = FALSE
               /\ llm_calls' = 0
          ELSE ExecuteQueryStart(prompt, ctx)
    /\ UNCHANGED_session_but_messages
    /\ UNCHANGED <<execute_retry, retry_query, pivot_call>>
    /\ UNCHANGED aside_vars

ProcessUserQuery == ProcessUserQueryUpTo(MaxLog, Queries)

\* the language-model call of provide_analysis_on_previous_results returns
InterpretReturns ==
    /\ pc = "interpret"
    /\ llm_calls' = llm_calls + 1
    /\ result' = [success |-> TRUE,
                  response |-> [response |-> "**Analysis of Previous Results:**",
                                pandas_instruction_str |-> previous.pandas_code],
                  error |-> None]
    /\ pc' = "returned"
    /\ UNCHANGED <<session_vars, pivot_call, query, query_engine, via,
                   context, retry_count,
                   final_query, schema_analysis, pandas_instructions,
                   pandas_output, previous, sent, raised, eval_faulted>>
    /\ UNCHANGED aside_vars

\* ... or raises
InterpretRaises ==
    /\ pc = "interpret"
    /\ llm_calls' = llm_calls + 1
    /\ result' = [success |-> FALSE, response |-> NoResponse,
                  error |-> "Error in analysis: llm failed"]
    /\ pc' = "returned"
    /\ UNCHANGED <<session_vars, pivot_call, query, query_engine, via,
                   context, retry_count,
                   final_query, schema_analysis, pandas_instructions,
                   pandas_output, previous, sent, raised, eval_faulted>>
    /\ UNCHANGED aside_vars

\* CustomPandasQueryEngine.query, first part: _analyse_query (its model call
\* returns JSON, or anything else, which is swallowed into None) and the
\* binding of the prompt
AnalyseQuery ==
    /\ pc = "analyse"
    /\ \E analysis \in {"json", None} : schema_analysis' = analysis
    /\ llm_calls' = llm_calls + 1
    /\ pc' = NextStage(pc)
    /\ UNCHANGED <<session_vars, pivot_call>>
    /\ UNCHANGED <<query, query_engine, via, context, retry_count, final_query,
                   pandas_instructions, pandas_output, previous, result, sent,
                   raised, eval_faulted>>
    /\ UNCHANGED aside_vars

\* the except branch of execute_query's loop (lines 35-40) for an exception
\* with message e, and the next query_engine.query call when one is made
Except(e) ==
    LET rc == retry_count + 1
        fq == NextFinalQuery(rc, context, final_query)
    IN
    /\ retry_count' = rc
    /\ final_query' = fq
    /\ raised' = Append(raised, e)
    /\ schema_analysis' = None
    /\ pandas_instructions' = None
    /\ pandas_output' = None
    /\ IF RetriesExhausted(rc)
       THEN /\ result' = [success |-> FALSE, response |-> NoResponse,
                          error |-> ExhaustedError(e)]
            /\ pc' = "returned"
            /\ UNCHANGED <<sent, eval_faulted>>
       ELSE /\ result' = result
            /\ pc' = "analyse"
            /\ sent' = Append(sent, fq)
            /\ eval_faulted' = FALSE
    /\ UNCHANGED <<session_vars, pivot_call, query, query_engine, via,
                   context, previous>>

\* code synthesis: the prompt formatted with query_analysis is sent (the
\* analysis is not read after that) and the model call returns an expression
SynthesiseReturns ==
    /\ pc = "synthesise"
    /\ \E e \in Exprs : pandas_instructions' = e
    /\ schema_analysis' = None
    /\ llm_calls' = llm_calls + 1
    /\ pc' = NextStage(pc)
    /\ UNCHANGED <<session_vars, pivot_call, query, query_engine, via,
                   context, retry_count,
                   final_query, pandas_output, previous, result, sent, raised,
                   eval_faulted>>
    /\ UNCHANGED aside_vars

\* ... or raises
SynthesiseRaises ==
    /\ pc = "synthesise"
    /\ llm_calls' = llm_calls + 1
    /\ Except("synthesis failed")
    /\ UNCHANGED aside_vars

\* _process_pandas_instructions: eval returns or raises; either way a string
\* comes back
Execute ==
    /\ pc = "execute"
    /\ \E fault \in BOOLEAN :
          /\ pandas_output' = ProcessPandasInstructions(pandas_instructions, fault)
          /\ eval_faulted' = fault
    /\ pc' = NextStage(pc)
    /\ UNCHANGED <<session_vars, pivot_call, query, query_engine, via,
                   context, retry_count,
                   final_query, schema_analysis, pandas_instructions, previous,
                   result, sent, raised, llm_calls>>
    /\ UNCHANGED aside_vars

\* response synthesis: the model call returns the answer text, and
\* execute_query returns (True, response, None)
RespondReturns ==
    /\ pc = "respond"
    /\ llm_calls' = llm_calls + 1
    /\ \E text \in ResponseTexts :
          result' = [success |-> TRUE,
                     response |-> [response |-> text,
                                   pandas_instruction_str |-> pandas_instructions],
                     error |-> None]
    /\ pc' = NextStage(pc)
    /\ UNCHANGED <<session_vars, pivot_call, query, query_engine, via,
                   context, retry_count,
                   final_query, schema_analysis, pandas_instructions,
                   pandas_output, previous, sent, raised, eval_faulted>>
    /\ UNCHANGED aside_vars

\* ... or raises
RespondRaises ==
    /\ pc = "respond"
    /\ llm_calls' = llm_calls + 1
    /\ Except("response synthesis failed")
    /\ UNCHANGED aside_vars

\* _handle_successful_response / _handle_error_response (and lines 163-192 of
\* _handle_retry_query), then st.rerun()
HandleResponse ==
    /\ pc = "returned"
    /\ messages' = Append(messages,
                          IF result.success THEN SuccessMessage(result.response)
                          ELSE ErrorMessage)
    /\ QuestionIdle
    /\ UNCHANGED_session_but_messages
    /\ UNCHANGED <<execute_retry, retry_query, pivot_call>>
    /\ UNCHANGED aside_vars

(***************************************************************************)
(* Retry and Explain buttons                                               *)
(***************************************************************************)
\* the "Retry" button, rendered for the last assistant message that carries
\* an expression when it has no explanation: _prepare_retry_state
ClickRetry ==
    /\ UserTurn
    /\ pivot_order # <<>>
    /\ LET idx == LastAssistantIdx(messages) IN
       /\ idx > 0
       /\ ~Truthy(messages[idx].explanation)
       /\ idx > 1
       /\ messages[idx - 1].role = "user"
       /\ messages' = Pop(messages, idx)
       /\ retry_query' = messages[idx - 1].content
       /\ execute_retry' = TRUE
    /\ UNCHANGED_session_but_messages
    /\ UNCHANGED <<question_vars, pivot_call>>
    /\ UNCHANGED aside_vars

\* _handle_retry_query up to the first query_engine.query call
HandleRetryQuery ==
    /\ pc = "idle"
    /\ execute_retry
    /\ execute_retry' = FALSE
    /\ retry_query' = Absent
    /\ via' = "retry"
    /\ query_engine' = pivot_tables[selected_pivot].query_engine
    /\ ExecuteQueryStart(retry_query,
                         BuildChatContext(messages, pivot_tables[selected_pivot]))
    /\ UNCHANGED <<datasets, active_dataset, last_uploaded_file, original_df,
                   pivot_tables, pivot_order, active_pivot, selected_pivot,
                   messages, pivot_call>>
    /\ UNCHANGED aside_vars

\* the "Explain" button of a message that carries an expression and has no
\* explanation: explain_pandas_script returns a text, or None when the model
\* call raised
ClickExplain ==
    /\ UserTurn
    /\ pivot_order # <<>>
    /\ \E i \in 1..Len(messages), explanation \in {"explanation", None} :
          /\ HasCode(messages[i])
          /\ ~Truthy(messages[i].explanation)
          /\ messages' = [messages EXCEPT ![i].explanation = explanation]
    /\ UNCHANGED_session_but_messages
    /\ UNCHANGED <<execute_retry, retry_query, question_vars, pivot_call>>
    /\ UNCHANGED aside_vars

Next ==
    \/ UploadFile
    \/ CreatePivot
    \/ DeletePivot
    \/ CleanUpSession
    \/ ProcessUserQuery
    \/ InterpretReturns
    \/ InterpretRaises
    \/ AnalyseQuery
    \/ SynthesiseReturns
    \/ SynthesiseRaises
    \/ Execute
    \/ RespondReturns
    \/ RespondRaises
    \/ HandleResponse
    \/ ClickRetry
    \/ HandleRetryQuery
    \/ ClickExplain

Spec == Init /\ [][Next]_vars

(***************************************************************************)
(* Sessions with two pivots over a file that has a date column             *)
(***************************************************************************)
\* one file, two pivot names, one aggregation, and one question, which is
\* not analytical, after the greeting
PivotMaxLog == 3
PivotFiles == {"dated.csv"}
TwoPivotNames == {"Pivot 1", "Pivot 2"}
PivotAggFuncs == {"sum"}
PivotQueries == {"sum"}

PivotUploadFile == UploadFileOf(PivotFiles)
PivotCreatePivot == CreatePivotOf(TwoPivotNames, PivotAggFuncs)
PivotProcessUserQuery == ProcessUserQueryUpTo(PivotMaxLog, PivotQueries)

PivotNext ==
    \/ PivotUploadFile
    \/ PivotCreatePivot
    \/ DeletePivot
    \/ SelectPivot
    \/ CleanUpSession
    \/ PivotProcessUserQuery
    \/ AnalyseQuery
    \/ SynthesiseReturns
    \/ SynthesiseRaises
    \/ Execute
    \/ RespondReturns
    \/ RespondRaises
    \/ HandleResponse
    \/ ClickRetry
    \/ HandleRetryQuery
    \/ ClickExplain

PivotSpec == Init /\ [][PivotNext]_vars

(***************************************************************************)
(* Properties                                                              *)
(***************************************************************************)
Handling == pc # "idle"

\* C1: for one question on the computational path the query engine is invoked
\* at most 3 times; an attempt is made only after every earlier one failed,
\* success is returned by the first attempt that does not fail, and failure
\* is returned only after the 3rd failed attempt, with a non-null error that
\* is the message of the last exception.
C1_RetryBound ==
    /\ Len(sent) <= 3
    /\ Len(sent) > 0 =>
          /\ Handling
          /\ Len(raised) \in {Len(sent) - 1, Len(sent)}
          /\ pc # "returned" => Len(raised) = Len(sent) - 1
          /\ pc = "returned" =>
                IF result.success
                THEN Len(raised) = Len(sent) - 1 /\ result.error = None
                ELSE /\ Len(sent) = 3
                     /\ Len(raised) = 3
                     /\ result.error # None
                     /\ result.error = raised[3]

\* C1 witness: three attempts failed, the last one on another exception than
\* the first, and failure was returned
C1_Witness ==
    /\ pc = "returned"
    /\ ~result.success
    /\ Len(sent) = 3
    /\ raised[1] # raised[3]

\* C2 as stated: with a context supplied, the 1st attempt sends the full
\* context and the 2nd attempt already sends the minimal fallback string.
C2_FallbackOnSecondAttempt ==
    (Truthy(context) /\ Len(sent) >= 2) =>
        sent[1] = "full" /\ sent[2] = "fallback"

\* C2 amended: with a context supplied, the 1st and the 2nd attempt send the
\* full context and the 3rd attempt (made right after the second failure)
\* sends the minimal fallback string; without a context every attempt sends
\* the bare question.
C2_FallbackOnThirdAttempt ==
    \A i \in 1..Len(sent) :
        IF Truthy(context)
        THEN sent[i] = (IF i <= 2 THEN "full" ELSE "fallback")
        ELSE sent[i] = "bare"

\* C2 witness: a third attempt was made with a context supplied
C2_Witness ==
    /\ Truthy(context)
    /\ Len(sent) = 3
    /\ pc = "analyse"

\* C3: an attempt in which evaluating the synthesized expression faulted
\* counts as failed: it is never the attempt that returns success, a further
\* attempt follows while fewer than 3 were made.
C3_EvalFaultFeedsRetry ==
    ~(pc = "returned" /\ result.success /\ eval_faulted)

\* C4: the log never holds two assistant answers to one user question: no
\* user message is followed by two assistant messages before the next user
\* message.
C4_OneAnswerPerQuestion ==
    \A i \in 1..(Len(messages) - 2) :
        messages[i].role = "user" =>
            ~(messages[i + 1].role = "assistant" /\ messages[i + 2].role = "assistant")

\* the stages of CustomPandasQueryEngine.query
EngineStages == {"analyse", "synthesise", "execute", "respond"}

\* C5 as stated: every question that contains an analytical keyword ("Whole"
\* contains "who" once lower-cased) is handled on the analytical path and its
\* handling never invokes the query engine; every other question ("sum") is
\* handled on the computational path.
C5_KeywordNeverReachesEngine ==
    Handling =>
        /\ query = "Whole" => (sent = <<>> /\ pc \notin EngineStages)
        /\ query = "sum" => (sent # <<>> /\ pc # "interpret")

\* C5 amended: every question entered in the chat input that contains an
\* analytical keyword is handled on the analytical path and that handling
\* never invokes the query engine, and every other chat question is handled
\* on the computational path; a question re-submitted with the Retry button
\* is handled on the computational path whatever it contains.
C5_ChatKeywordNeverReachesEngine ==
    Handling =>
        /\ (via = "chat" /\ query = "Whole") =>
              (sent = <<>> /\ pc \in {"interpret", "returned"})
        /\ (via = "chat" /\ query = "sum") => (sent # <<>> /\ pc # "interpret")
        /\ via = "retry" => (sent # <<>> /\ pc # "interpret")

\* C5 witness: a chat question with a keyword was answered by interpretation
C5_Witness ==
    /\ pc = "returned"
    /\ via = "chat"
    /\ query = "Whole"
    /\ result.success
    /\ llm_calls = 1

NoPriorResultFailure ==
    /\ pc = "returned"
    /\ ~result.success
    /\ result.error = "No previous results to analyze"
    /\ llm_calls = 0

\* C6: on the analytical path the message interpreted is the most recent
\* assistant message with non-empty content, later assistant messages with
\* empty content being skipped; exactly when the log holds no such message
\* the call fails at once with the no-prior-result error, with no model call
\* and no retry.
C6_InterpretsLastNonEmpty ==
    LET NonEmpty(i) ==
            messages[i].role = "assistant" /\ messages[i].content # ""
        last == IF \E i \in 1..Len(messages) : NonEmpty(i)
                THEN CHOOSE i \in 1..Len(messages) :
                        /\ NonEmpty(i)
                        /\ \A j \in (i + 1)..Len(messages) : ~NonEmpty(j)
                ELSE 0
    IN
    (Handling /\ via = "chat" /\ query = "Whole") =>
        IF last = 0
        THEN NoPriorResultFailure
        ELSE /\ ~NoPriorResultFailure
             /\ previous.result = messages[last].content

AnalyticalSuccess ==
    pc = "returned" /\ via = "chat" /\ query = "Whole" /\ result.success

\* C7 as stated: the analytical response's computation expression equals the
\* computation expression of the prior assistant message that was
\* interpreted, also when that message carries no expression.
C7_ReusesPriorExpression ==
    AnalyticalSuccess =>
        /\ PreviousIdx(messages) # 0
        /\ result.response.pandas_instruction_str =
              messages[PreviousIdx(messages)].pandas_code

\* C7 amended: the analytical response's computation expression equals the
\* computation expression of the interpreted prior assistant message when
\* that message carries one, and is the placeholder "# No code available"
\* when it carries none; no expression is synthesized.
C7_ReusesPriorExpressionOrPlaceholder ==
    AnalyticalSuccess =>
        /\ PreviousIdx(messages) # 0
        /\ result.response.pandas_instruction_str =
              (IF messages[PreviousIdx(messages)].pandas_code = Absent
               THEN "# No code available"
               ELSE messages[PreviousIdx(messages)].pandas_code)
        /\ pandas_instructions = None

\* C7 witness: an interpretation reused the expression of a computed answer
C7_Witness ==
    /\ AnalyticalSuccess
    /\ result.response.pandas_instruction_str = "e1"

\* the log is being left alone while the engine or the model is at work
InFlight == pc \notin {"idle", "returned"}

\* C8: every successfully answered question, on either path, appends exactly
\* one assistant message to the log whose content is the answer text, whose
\* computation expression is the synthesized expression (computational path)
\* or the reused one (analytical path) and whose explanation is empty; the
\* earlier entries are unchanged and nothing is appended while the question
\* is being handled.
C8_SuccessAppendsOneMessage ==
    [][/\ (pc = "returned" /\ result.success) =>
             /\ messages' =
                   Append(messages,
                          [role |-> "assistant",
                           content |-> result.response.response,
                           pandas_code |-> IF sent # <<>>
                                           THEN pandas_instructions
                                           ELSE previous.pandas_code,
                           explanation |-> None,
                           error |-> FALSE])
             /\ pc' = "idle"
       /\ InFlight => messages' = messages]_vars

\* C8 witness: the log ends with a user question and its computed answer
C8_Witness ==
    /\ pc = "idle"
    /\ Len(messages) >= 2
    /\ messages[Len(messages) - 1].role = "user"
    /\ messages[Len(messages)].role = "assistant"
    /\ ~messages[Len(messages)].error
    /\ messages[Len(messages)].pandas_code = "e1"
    /\ messages[Len(messages)].explanation = None

\* the session can take the next question
SessionUsable ==
    /\ pc = "idle"
    /\ ~execute_retry
    /\ active_pivot \in DOMAIN pivot_tables
    /\ HasQueryEngine(pivot_tables[active_pivot])

\* C9: when a question fails (retries exhausted or analytical-path failure)
\* exactly one error-flagged assistant message is appended to the log, the
\* datasets, the pivot views and their query engines are unchanged from the
\* moment the question is taken until its failure is recorded, and the
\* session is then ready for the next question.
C9_FailureLeavesSessionUsable ==
    [][/\ (pc = "returned" /\ ~result.success) =>
             /\ messages' =
                   Append(messages,
                          [role |-> "assistant", content |-> error_msg,
                           pandas_code |-> Absent, explanation |-> Absent,
                           error |-> TRUE])
             /\ SessionUsable'
       /\ Handling =>
             /\ datasets' = datasets
             /\ pivot_tables' = pivot_tables
             /\ active_pivot' = active_pivot]_vars

\* C9 witness: a question failed and the next question was answered
C9_Witness ==
    /\ pc = "idle"
    /\ Len(messages) >= 4
    /\ messages[2].error
    /\ messages[3].role = "user"
    /\ messages[4].role = "assistant"
    /\ ~messages[4].error
    /\ messages[4].pandas_code = "e1"

\* C10: a pivot is never computed or stored for an invalid configuration:
\* create_pivot is never invoked with an empty group-by or with empty values
\* and an aggregation other than count, and no stored pivot has such a
\* configuration.
C10_InvalidConfigRejected ==
    LET Valid(rows, values, aggfunc) ==
            /\ rows # <<>>
            /\ (values # <<>> \/ aggfunc = "count")
    IN
    /\ pivot_call # NoCall =>
          Valid(pivot_call.rows, pivot_call.values, pivot_call.aggfunc)
    /\ \A k \in DOMAIN pivot_tables :
          Valid(pivot_tables[k].config.rows \o pivot_tables[k].config.date_rows,
                pivot_tables[k].config.values,
                pivot_tables[k].config.aggfunc)

\* C12: within one attempt of the computational path the stages run in the
\* order schema analysis, code synthesis, expression execution, response
\* synthesis, each starting only when the previous one returned; the intent
\* classification of a chat question precedes them all; and the
\* language-model calls of a question are made one at a time, each by the
\* stage the handling is in.
C12_StagesInOrder ==
    /\ [](/\ pc \in EngineStages => Len(sent) = retry_count + 1
          /\ (pc \in EngineStages /\ via = "chat") => query = "sum"
          /\ pc \in {"analyse", "synthesise"} =>
                (pandas_instructions = None /\ pandas_output = None)
          /\ pc = "execute" =>
                (pandas_instructions # None /\ pandas_output = None)
          /\ pc = "respond" =>
                (pandas_instructions # None /\ pandas_output # None))
    /\ [][/\ pc' # pc =>
                <<pc, pc'>> \in
                    {<<"idle", "analyse">>, <<"idle", "interpret">>,
                     <<"idle", "returned">>, <<"interpret", "returned">>,
                     <<"analyse", "synthesise">>, <<"synthesise", "execute">>,
                     <<"execute", "respond">>, <<"respond", "returned">>,
                     <<"synthesise", "analyse">>, <<"synthesise", "returned">>,
                     <<"respond", "analyse">>, <<"returned", "idle">>}
          /\ (pc' = "analyse" /\ pc \in {"synthesise", "respond"}) =>
                (retry_count' = retry_count + 1 /\ Len(raised') = Len(raised) + 1)
          /\ llm_calls' # llm_calls =>
                \/ /\ llm_calls' = llm_calls + 1
                   /\ pc \in {"interpret", "analyse", "synthesise", "respond"}
                \/ llm_calls' = 0]_vars

\* C12 witness: a second attempt went through all four stages and returned
C12_Witness ==
    /\ pc = "returned"
    /\ result.success
    /\ retry_count = 1
    /\ llm_calls = 6
    /\ pandas_output # None

(***************************************************************************)
(* The functions of the table code and build_chat_context, each called     *)
(* once on arguments drawn from bounded sets                               *)
(***************************************************************************)
MaxContextLog == 12

\* the i-th message of a log whose kinds rotate from `shift`: a question, a
\* computed answer, a failure; the content tells the position
LogMessage(i, shift) ==
    CASE (i + shift) % 3 = 0 -> UserMessage("q" \o ToString(i))
      [] (i + shift) % 3 = 1 ->
            SuccessMessage([response |-> "a" \o ToString(i),
                            pandas_instruction_str |-> "e" \o ToString(i)])
      [] OTHER -> [ErrorMessage EXCEPT !.content = "f" \o ToString(i)]

\* the pivot entries build_chat_context is called with
ContextPivots ==
    {[name |-> "Pivot 1", source_dataset |-> "sales.csv",
      config |-> [rows |-> r, date_rows |-> <<>>, values |-> v,
                  filter |-> <<>>, aggfunc |-> "sum"]] :
        r \in {<<"Country">>}, v \in {<<>>, <<"Revenue">>}}

BuildChatContextInputs ==
    {[fn |-> "build_chat_context",
      args |-> [messages |-> [i \in 1..n |-> LogMessage(i, shift)],
                pivot_data |-> pd],
      done |-> FALSE, out |-> None] :
        n \in 0..MaxContextLog, shift \in 0..2, pd \in ContextPivots}

ApplyBuildChatContext ==
    /\ calc.fn = "build_chat_context"
    /\ ~calc.done
    /\ calc' = [calc EXCEPT !.done = TRUE,
                            !.out = ChatContext(calc.args.messages,
                                                calc.args.pivot_data)]
    /\ UNCHANGED <<session_vars, question_vars, pivot_call, upload_call, fastapi>>

\* C13: build_chat_context renders exactly the last min(10, n) messages of
\* the n-message log, in log order, each tagged with its role and carrying
\* its content, an assistant message that has a computation expression
\* being followed by that expression, and then the pivot configuration; no
\* message older than the last 10 appears.
C13_ContextIsLastTen ==
    (calc.fn = "build_chat_context" /\ calc.done) =>
        LET msgs == calc.args.messages
            n == Len(msgs)
            k == IF n < 10 THEN n ELSE 10
            out == calc.out
            said == SelectSeq(out, LAMBDA l : l.tag \in {"User", "Assistant"})
            code(i) == msgs[n - k + i].role = "assistant"
                       /\ msgs[n - k + i].pandas_code \notin {Absent, None, ""}
            \* the position in `out` of the line of the i-th rendered message
            pos(i) == 1 + i + Cardinality({j \in 1..(i - 1) : code(j)})
        IN
        /\ Len(said) = k
        /\ \A i \in 1..k :
              /\ said[i].text = <<msgs[n - k + i].content>>
              /\ said[i].tag = (IF msgs[n - k + i].role = "user"
                                THEN "User" ELSE "Assistant")
              /\ out[pos(i)] = said[i]
              /\ code(i) => out[pos(i) + 1] =
                               [tag |-> "Code used",
                                text |-> <<msgs[n - k + i].pandas_code>>]
        /\ Cardinality({j \in 1..Len(out) : out[j].tag = "Code used"})
              = Cardinality({i \in 1..k : code(i)})
        /\ \A j \in 1..(n - k), l \in 1..Len(out) :
              out[l].text # <<msgs[j].content>>
        /\ Len(out) >= 4
        /\ out[1].tag = "Preamble"
        /\ out[Len(out) - 2].tag = "Rows"
        /\ out[Len(out) - 1].tag = "Values"
        /\ out[Len(out)].tag = "Aggregation"
        /\ Len(out) = 4 + k + Cardinality({i \in 1..k : code(i)})

\* C13 witness: a log of more than 10 messages was rendered
C13_Witness ==
    /\ calc.fn = "build_chat_context"
    /\ calc.done
    /\ Len(calc.args.messages) = 12
    /\ \E l \in 1..Len(calc.out) : calc.out[l].tag = "Code used"

(***************************************************************************)
(* join_datasets                                                           *)
(***************************************************************************)
\* the keys that start with 'joined_'
JoinedKeys == {"joined_" \o ToString(i) : i \in 0..3}

\* the message of a column mismatch: the dataset it names, the columns that
\* dataset misses and the columns it has extra
MismatchMessage(key, missing, extra) ==
    [text |-> "Column mismatch in dataset", dataset |-> key,
     missing |-> missing, extra |-> extra]

PlainMessage(text) == [text |-> text, dataset |-> None, missing |-> {}, extra |-> {}]

\* a mutation of FirstOf: the loop runs to its end and reports the last
LastOf(indices) == CHOOSE i \in indices : \A j \in indices : j <= i

\* the position at which the loop over the selection returns: the first one
\* that fails the test
FirstOf(indices) == CHOOSE i \in indices : \A j \in indices : i <= j

\* a mutation of ConcatRows: the frames are stacked last first
RECURSIVE ConcatRowsReversed(_)
ConcatRowsReversed(dfs) ==
    IF dfs = <<>> THEN <<>> ELSE ConcatRowsReversed(Tail(dfs)) \o Head(dfs).rows

\* the rows of pd.concat(dfs, ignore_index=True)
RECURSIVE ConcatRows(_)
ConcatRows(dfs) ==
    IF dfs = <<>> THEN <<>> ELSE Head(dfs).rows \o ConcatRows(Tail(dfs))

\* join_datasets of data_processing: (joined_df, first_dataset, message),
\* ok telling whether joined_df is a frame
join_datasets(datasets_dict, dataset_keys) ==
    LET failed(message) ==
            [ok |-> FALSE, df |-> NoTable, first_dataset |-> None,
             message |-> message]
        n == Len(dataset_keys)
        unknown == {i \in 1..n : dataset_keys[i] \notin DOMAIN datasets_dict}
        dfs == [i \in 1..n |-> datasets_dict[dataset_keys[i]].df]
        first_columns == Range(dfs[1].columns)
        offending == {i \in 2..n : Range(dfs[i].columns) # first_columns}
    IN
    IF n < 2
    THEN failed(PlainMessage("Please select at least two datasets to join"))
    ELSE IF unknown # {}
    THEN failed([PlainMessage("Dataset not found") EXCEPT
                    !.dataset = dataset_keys[FirstOf(unknown)]])
    ELSE IF offending # {}
    THEN LET i == FirstOf(offending) IN
         failed(MismatchMessage(dataset_keys[i],
                                first_columns \ Range(dfs[i].columns),
                                Range(dfs[i].columns) \ first_columns))
    ELSE [ok |-> TRUE,
          df |-> [columns |-> dfs[1].columns, dtypes |-> dfs[1].dtypes,
                  rows |-> ConcatRows(dfs)],
          first_dataset |-> dataset_keys[1],
          message |-> PlainMessage("Datasets joined successfully")]

\* DataService.join_datasets on the session's registry: what it returns, and
\* the registry and the active dataset it leaves
DataServiceJoin(registry, active, dataset_keys, join_name) ==
    LET joined == join_datasets(registry, dataset_keys)
        join_key ==
            "joined_" \o ToString(Cardinality(DOMAIN registry \cap JoinedKeys))
        first_dataset == registry[joined.first_dataset]
        entry == [df |-> joined.df, filename |-> join_name,
                  source_datasets |-> dataset_keys,
                  columns |-> first_dataset.columns,
                  numeric_columns |-> first_dataset.numeric_columns]
    IN
    IF ~joined.ok
    THEN [join_key |-> None, message |-> joined.message,
          datasets |-> registry, active_dataset |-> active]
    ELSE [join_key |-> join_key, message |-> joined.message,
          datasets |-> [k \in DOMAIN registry \cup {join_key} |->
                           IF k = join_key THEN entry ELSE registry[k]],
          active_dataset |-> join_key]

\* the frames that are joined: three layouts of text columns
JoinLayouts == {<<"A", "B">>, <<"B", "A">>, <<"A", "B", "C">>}

\* a frame of n rows in a layout; each cell tells its dataset, row and column
JoinFrame(key, layout, n) ==
    [columns |-> layout,
     dtypes |-> [c \in Range(layout) |-> "object"],
     rows |-> [i \in 1..n |->
                 [c \in Range(layout) |-> Text(key \o ":" \o ToString(i) \o c)]]]

JoinFiles == <<"a.csv", "b.csv", "c.csv">>

\* the registries join_datasets is called on: a.csv with one row, b.csv with
\* two, c.csv with none, each in one of the layouts
JoinRegistries ==
    {[k \in Range(JoinFiles) |->
         DatasetEntry(k, JoinFrame(k, layout[k],
                                   CASE k = "a.csv" -> 1
                                     [] k = "b.csv" -> 2
                                     [] OTHER -> 0))] :
        layout \in [Range(JoinFiles) -> JoinLayouts]}

\* the selections: lists without repetition of at most three keys, one of
\* which is not in the registry
JoinSelections ==
    LET keys == Range(JoinFiles) \cup {"gone.csv"} IN
    {s \in UNION {[1..n -> keys] : n \in 0..3} :
        \A i \in DOMAIN s, j \in DOMAIN s : s[i] = s[j] => i = j}

JoinDatasetsInputs ==
    {[fn |-> "join_datasets",
      args |-> [datasets |-> registry, active_dataset |-> "a.csv",
                dataset_keys |-> selection, join_name |-> "Joined Dataset"],
      done |-> FALSE, out |-> None] :
        registry \in JoinRegistries, selection \in JoinSelections}

ApplyJoinDatasets ==
    /\ calc.fn = "join_datasets"
    /\ ~calc.done
    /\ calc' = [calc EXCEPT !.done = TRUE,
                            !.out = DataServiceJoin(calc.args.datasets,
                                                    calc.args.active_dataset,
                                                    calc.args.dataset_keys,
                                                    calc.args.join_name)]
    /\ UNCHANGED <<session_vars, question_vars, pivot_call, upload_call, fastapi>>


(***************************************************************************)
(* create_pivot                                                            *)
(***************************************************************************)
\* the frames create_pivot is called on
PivotFrames == {ParsedTable("dated.csv"), ParsedTable("repeat.csv")}

\* the filters on one column: lists of values, as the multiselect gives them
ColumnFilters ==
    {[column |-> "Country", list |-> TRUE, allowed |-> a] :
        a \in SUBSET {Text("UK"), Text("FR")}}
    \cup {[column |-> "Month", list |-> TRUE, allowed |-> a] :
            a \in {{Text("Jan 2024")}, {Text("2024-01-05")}}}
    \cup {[column |-> "Revenue", list |-> TRUE, allowed |-> a] :
            a \in {{Text("100")}, {Text("50"), Text("100")}}}

\* filter.items(): at most two filters, on different columns, in either order
FilterLists ==
    {<<>>} \cup {<<f>> : f \in ColumnFilters}
           \cup {fs \in {<<f, g>> : f \in ColumnFilters, g \in ColumnFilters} :
                    fs[1].column # fs[2].column}

\* the group-by columns of a call
IndexLists == {<<"Country">>, <<"Month">>, <<"Month", "Country">>,
               <<"Country", "Month">>}

CreatePivotInputs ==
    {[fn |-> "create_pivot",
      args |-> [df |-> df, rows |-> rows, values |-> <<"Revenue">>,
                filter |-> filter, aggfunc |-> aggfunc],
      done |-> FALSE, out |-> None] :
        df \in PivotFrames, rows \in IndexLists, filter \in FilterLists,
        aggfunc \in AggFuncs}

\* one call of create_pivot: the rows left after its filter loop, and the
\* table it returns
ApplyCreatePivot ==
    /\ calc.fn = "create_pivot"
    /\ ~calc.done
    /\ calc' = [calc EXCEPT
                  !.done = TRUE,
                  !.out = [df_filtered |->
                              ApplyFilters(calc.args.df.rows, calc.args.filter),
                           pivot_table |->
                              create_pivot(calc.args.df, calc.args.rows,
                                           calc.args.values, calc.args.filter,
                                           calc.args.aggfunc).table]]
    /\ UNCHANGED <<session_vars, question_vars, pivot_call, upload_call, fastapi>>


(***************************************************************************)
(* possible_date_columns                                                   *)
(***************************************************************************)
MaxColumnLen == 6

\* the cells of the columns that are tested: nothing, a date, a text that
\* holds a month name without being a date, a text that does neither
SampleCells == {NaN, Text("2024-01-05"), Text("mayhem"), Text("abc")}

\* a frame of one text column
OneColumnFrame(col, cells) ==
    [columns |-> <<col>>, dtypes |-> [c \in {col} |-> "object"],
     rows |-> [i \in 1..Len(cells) |-> [c \in {col} |-> cells[i]]]]

PossibleDateColumnsInputs ==
    {[fn |-> "possible_date_columns",
      args |-> [df |-> OneColumnFrame(col, cells)],
      done |-> FALSE, out |-> None] :
        col \in {"Month", "Country"},
        cells \in UNION {[1..n -> SampleCells] : n \in 0..MaxColumnLen}}

ApplyPossibleDateColumns ==
    /\ calc.fn = "possible_date_columns"
    /\ ~calc.done
    /\ calc' = [calc EXCEPT !.done = TRUE,
                            !.out = PossibleDateColumns(calc.args.df)]
    /\ UNCHANGED <<session_vars, question_vars, pivot_call, upload_call, fastapi>>


(***************************************************************************)
(* _coerce_column_types                                                    *)
(***************************************************************************)
MaxCoerceLen == 3

\* the cells read_csv gives the columns that are coerced: nothing, a numeral,
\* a text that is no numeral
CoerceCells == {NaN, Text("100"), Text("abc")}

\* the frames that are coerced: one text column of at least one row, and the
\* frame of blank.csv
CoerceColumnTypesInputs ==
    {[fn |-> "coerce_column_types", args |-> [df |-> df],
      done |-> FALSE, out |-> None] :
        df \in {RawTable("blank.csv")}
               \cup {OneColumnFrame("Notes", cells) :
                       cells \in UNION {[1..n -> CoerceCells] :
                                           n \in 1..MaxCoerceLen}}}

\* _coerce_column_types on what read_csv read, and the numeric columns
\* _finalise_dataset_storage then lists
ApplyCoerceColumnTypes ==
    /\ calc.fn = "coerce_column_types"
    /\ ~calc.done
    /\ calc' = [calc EXCEPT
                  !.done = TRUE,
                  !.out = [df |-> coerce_column_types(calc.args.df),
                           numeric_columns |->
                              NumericColumns(coerce_column_types(calc.args.df))]]
    /\ UNCHANGED <<session_vars, question_vars, pivot_call, upload_call, fastapi>>


(***************************************************************************)
(* The column lists of the pivot page                                      *)
(***************************************************************************)
\* the files whose datasets the pivot page is shown for
PageFiles == {"sales.csv", "dated.csv", "repeat.csv", "blank.csv",
              "years.csv", "padded.csv"}

PageColumnsInputs ==
    {[fn |-> "page_columns",
      args |-> [dataset |-> DatasetEntry(f, ParsedTable(f))],
      done |-> FALSE, out |-> None] : f \in PageFiles}

\* show_pivot_page down to its three column lists
ApplyPageColumns ==
    /\ calc.fn = "page_columns"
    /\ ~calc.done
    /\ calc' = [calc EXCEPT
                  !.done = TRUE,
                  !.out = [numeric_columns |-> PageNumericColumns(calc.args.dataset),
                           date_columns |-> PageDateColumns(calc.args.dataset),
                           non_numeric_columns |->
                              PageNonNumericColumns(calc.args.dataset)]]
    /\ UNCHANGED <<session_vars, question_vars, pivot_call, upload_call, fastapi>>


(***************************************************************************)
(* eval(pandas_instructions.strip(), {}, {'df': self.df})                  *)
(***************************************************************************)
\* expressions: a name, a string literal, an attribute, a call
NameExpr(id) == [kind |-> "name", id |-> id]
StrExpr(s) == [kind |-> "str", s |-> s]
AttrExpr(value, attr) == [kind |-> "attr", value |-> value, attr |-> attr]
CallExpr(func, args) == [kind |-> "call", func |-> func, args |-> args]

\* the names of the builtins module the model's expressions use.  eval puts
\* __builtins__ into a globals dictionary that lacks it, and globals is {}.
builtins == {"len", "__import__"}

\* the identifiers an expression references
RECURSIVE NamesOf(_)
NamesOf(e) ==
    CASE e.kind = "name" -> {e.id}
      [] e.kind = "str" -> {}
      [] e.kind = "attr" -> NamesOf(e.value)
      [] e.kind = "call" ->
            NamesOf(e.func) \cup UNION {NamesOf(e.args[i]) : i \in DOMAIN e.args}

Raised(error, outside) == [fault |-> TRUE, value |-> error, outside |-> outside]
Returned(value, outside) == [fault |-> FALSE, value |-> value, outside |-> outside]

\* the value of a name: the locals, then the globals (empty), then the
\* builtins
LookupName(id, local_vars, outside) ==
    IF id \in DOMAIN local_vars
    THEN Returned(local_vars[id], outside)
    ELSE IF id \in builtins
    THEN Returned([builtin |-> id], outside)
    ELSE Raised("NameError", outside)

\* the value of an expression and the state outside the evaluation it leaves
\* (the session state, which the module streamlit gives): fault tells that
\* the evaluation raised
RECURSIVE Eval(_, _, _)
Eval(e, local_vars, outside) ==
    CASE e.kind = "name" -> LookupName(e.id, local_vars, outside)
      [] e.kind = "str" -> Returned([str |-> e.s], outside)
      [] e.kind = "attr" ->
            LET obj == Eval(e.value, local_vars, outside) IN
            IF obj.fault
            THEN obj
            ELSE IF obj.value = [module |-> "streamlit"] /\ e.attr = "session_state"
            THEN Returned([session_state |-> obj.outside], obj.outside)
            ELSE IF "session_state" \in DOMAIN obj.value /\ e.attr = "clear"
            THEN Returned([method |-> "session_state.clear"], obj.outside)
            ELSE Raised("AttributeError", obj.outside)
      [] e.kind = "call" ->
            LET func == Eval(e.func, local_vars, outside)
                arg == Eval(e.args[1], local_vars, func.outside)
            IN
            IF func.fault
            THEN func
            ELSE IF func.value = [method |-> "session_state.clear"] /\ e.args = <<>>
            THEN Returned(None, "cleared")
            ELSE IF Len(e.args) # 1
            THEN Raised("TypeError", func.outside)
            ELSE IF arg.fault
            THEN arg
            ELSE IF func.value = [builtin |-> "len"] /\ "rows" \in DOMAIN arg.value
            THEN Returned([n |-> Len(arg.value.rows)], arg.outside)
            ELSE IF func.value = [builtin |-> "__import__"]
                    /\ arg.value = [str |-> "streamlit"]
            THEN Returned([module |-> "streamlit"], arg.outside)
            ELSE Raised("TypeError", arg.outside)

\* _process_pandas_instructions with the expression itself: str of eval's
\* value, or the error string of the except branch
EvalPandasInstructions(instructions, df, outside) ==
    LET local_vars == [id \in {"df"} |-> df]
        evaluated == Eval(instructions, local_vars, outside)
    IN
    [output |-> IF evaluated.fault
                THEN [error |-> "Error evaluating def _process_pandas_instructionn",
                      str |-> evaluated.value]
                ELSE [error |-> None, str |-> evaluated.value],
     outside |-> evaluated.outside]

\* the expressions the language model may produce
Expressions ==
    LET session == AttrExpr(CallExpr(NameExpr("__import__"), <<StrExpr("streamlit")>>),
                            "session_state")
    IN
    {NameExpr("df"),
     CallExpr(NameExpr("len"), <<NameExpr("df")>>),
     AttrExpr(NameExpr("pd"), "DataFrame"),
     AttrExpr(NameExpr("st"), "session_state"),
     session,
     CallExpr(AttrExpr(session, "clear"), <<>>)}

\* what st.session_state holds outside the bound table
Outsides == {"session of user 1", "session of user 2"}

ProcessPandasInstructionsInputs ==
    {[fn |-> "process_pandas_instructions",
      args |-> [pandas_instructions |-> e, df |-> ParsedTable(f), outside |-> o],
      done |-> FALSE, out |-> None] :
        e \in Expressions, f \in {"sales.csv", "repeat.csv"}, o \in Outsides}

ApplyProcessPandasInstructions ==
    /\ calc.fn = "process_pandas_instructions"
    /\ ~calc.done
    /\ calc' = [calc EXCEPT
                  !.done = TRUE,
                  !.out = EvalPandasInstructions(calc.args.pandas_instructions,
                                                 calc.args.df, calc.args.outside)]
    /\ UNCHANGED <<session_vars, question_vars, pivot_call, upload_call, fastapi>>


(***************************************************************************)
(* handle_file_upload                                                      *)
(***************************************************************************)
\* the sessions handle_file_upload is called in: a fresh one, one with
\* sales.csv uploaded, that one after a cleanup, one with the workbook
\* uploaded, and one with both; the file uploaded last is any of the files
UploadSessions ==
    LET sales == "sales.csv" :> DatasetEntry("sales.csv", ParsedTable("sales.csv"))
        book == "book.xlsx" :> ExcelEntry("book.xlsx")
    IN
    {[datasets |-> registry_and_cache[1], active_dataset |-> registry_and_cache[2],
      last_uploaded_file |-> last, original_df |-> registry_and_cache[3]] :
        registry_and_cache \in
            {<<NoDatasets, None, NoTable>>,
             <<sales, "sales.csv", ParsedTable("sales.csv")>>,
             <<NoDatasets, None, ParsedTable("sales.csv")>>,
             <<book, None, NoTable>>,
             <<sales @@ book, "sales.csv", ParsedTable("sales.csv")>>},
        last \in {None, "sales.csv", "dated.csv", "book.xlsx"}}

HandleFileUploadInputs ==
    {[fn |-> "handle_file_upload",
      args |-> [session |-> session, uploaded_file |-> f, s3_ok |-> s3_ok,
                parse_ok |-> parse_ok],
      done |-> FALSE, out |-> None] :
        session \in UploadSessions,
        f \in {None, "sales.csv", "dated.csv", "book.xlsx"},
        s3_ok \in BOOLEAN, parse_ok \in BOOLEAN}

ApplyHandleFileUpload ==
    /\ calc.fn = "handle_file_upload"
    /\ ~calc.done
    /\ calc' = [calc EXCEPT !.done = TRUE,
                            !.out = handle_file_upload(calc.args.session,
                                                       calc.args.uploaded_file,
                                                       calc.args.s3_ok,
                                                       calc.args.parse_ok)]
    /\ UNCHANGED <<session_vars, question_vars, pivot_call, upload_call, fastapi>>


CalcInputs ==
    BuildChatContextInputs \cup JoinDatasetsInputs \cup CreatePivotInputs
        \cup PossibleDateColumnsInputs \cup CoerceColumnTypesInputs
        \cup PageColumnsInputs \cup ProcessPandasInstructionsInputs
        \cup HandleFileUploadInputs

CalcInit ==
    /\ FreshSession
    /\ calc \in CalcInputs
    /\ upload_call = NoUploadCall
    /\ fastapi = NotServing

CalcNext ==
    \/ ApplyBuildChatContext
    \/ ApplyJoinDatasets
    \/ ApplyCreatePivot
    \/ ApplyPossibleDateColumns
    \/ ApplyCoerceColumnTypes
    \/ ApplyPageColumns
    \/ ApplyProcessPandasInstructions
    \/ ApplyHandleFileUpload

CalcSpec == CalcInit /\ [][CalcNext]_vars

\* C15: a join of two or more known datasets whose column sets equal the
\* first one's adds one dataset whose rows are the inputs' rows in the order
\* of the selection (as many rows as the inputs have together) and makes it
\* the active dataset; every other join returns no dataset and leaves the
\* registry and the active dataset as they were.
C15_JoinConcatenatesOrLeavesAlone ==
    (calc.fn = "join_datasets" /\ calc.done) =>
        LET registry == calc.args.datasets
            keys == calc.args.dataset_keys
            out == calc.out
            joinable ==
                /\ Len(keys) >= 2
                /\ Range(keys) \subseteq DOMAIN registry
                /\ \A i \in 1..Len(keys) :
                       Range(registry[keys[i]].df.columns)
                           = Range(registry[keys[1]].df.columns)
            frame(i) == registry[keys[i]].df
            before(i) ==
                LET RECURSIVE total(_)
                    total(j) == IF j = 0 THEN 0 ELSE total(j - 1) + Len(frame(j).rows)
                IN total(i - 1)
        IN
        IF joinable
        THEN /\ out.join_key \in DOMAIN out.datasets
             /\ out.active_dataset = out.join_key
             /\ Len(out.datasets[out.join_key].df.rows) = before(Len(keys) + 1)
             /\ \A i \in 1..Len(keys) : \A r \in 1..Len(frame(i).rows) :
                    out.datasets[out.join_key].df.rows[before(i) + r] = frame(i).rows[r]
        ELSE /\ out.join_key = None
             /\ out.datasets = registry
             /\ out.active_dataset = calc.args.active_dataset

\* C15 witness: three datasets that list the same columns in different orders
\* were joined into a dataset of three rows, b.csv first
C15_Witness ==
    /\ calc.fn = "join_datasets"
    /\ calc.done
    /\ calc.args.dataset_keys = <<"b.csv", "a.csv", "c.csv">>
    /\ calc.args.datasets["a.csv"].df.columns # calc.args.datasets["b.csv"].df.columns
    /\ calc.out.join_key = "joined_0"
    /\ Len(calc.out.datasets["joined_0"].df.rows) = 3
    /\ calc.out.datasets["joined_0"].df.rows[3] = calc.args.datasets["a.csv"].df.rows[1]

\* C16 as stated: a join that fails on a column mismatch names every dataset
\* whose column set differs from the first one's, each with the columns it
\* misses and the columns it has extra.
C16_EveryOffenderNamed ==
    (/\ calc.fn = "join_datasets"
     /\ calc.done
     /\ calc.out.message.text = "Column mismatch in dataset") =>
        LET registry == calc.args.datasets
            keys == calc.args.dataset_keys
            first_columns == Range(registry[keys[1]].df.columns)
            columns(i) == Range(registry[keys[i]].df.columns)
        IN
        {[dataset |-> calc.out.message.dataset,
          missing |-> calc.out.message.missing,
          extra |-> calc.out.message.extra]}
            = {[dataset |-> keys[i], missing |-> first_columns \ columns(i),
                extra |-> columns(i) \ first_columns] :
                  i \in {j \in 2..Len(keys) : columns(j) # first_columns}}

\* C16: a join that fails on a column mismatch names one dataset, the first
\* of the selection whose column set differs from the first one's, with the
\* columns it misses and the columns it has extra, and returns no dataset.
C16_FirstOffenderNamed ==
    (/\ calc.fn = "join_datasets"
     /\ calc.done
     /\ calc.out.message.text = "Column mismatch in dataset") =>
        LET registry == calc.args.datasets
            keys == calc.args.dataset_keys
            first_columns == Range(registry[keys[1]].df.columns)
            columns(i) == Range(registry[keys[i]].df.columns)
            offending == {j \in 2..Len(keys) : columns(j) # first_columns}
        IN
        /\ calc.out.join_key = None
        /\ \E i \in offending :
              /\ \A j \in offending : i <= j
              /\ calc.out.message.dataset = keys[i]
              /\ calc.out.message.missing = first_columns \ columns(i)
              /\ calc.out.message.extra = columns(i) \ first_columns

\* C16 witness: two datasets of the selection differ from the first, b.csv
\* by an extra column C and c.csv by none of its own, and b.csv is named
C16_Witness ==
    /\ calc.fn = "join_datasets"
    /\ calc.done
    /\ calc.args.dataset_keys = <<"a.csv", "b.csv", "c.csv">>
    /\ calc.args.datasets["a.csv"].df.columns = <<"A", "B">>
    /\ calc.args.datasets["b.csv"].df.columns = <<"A", "B", "C">>
    /\ calc.args.datasets["c.csv"].df.columns = <<"A", "B", "C">>
    /\ calc.out.message = MismatchMessage("b.csv", {}, {"C"})

\* C17: create_pivot keeps a row iff for every filter the row's value in the
\* filter's column, as a string, is one of the filter's allowed values: the
\* kept rows are the rows of the frame that pass every filter, in the frame's
\* order, whatever the order of the filters, and the groups of the returned
\* table are the keys of the kept rows.  Filter {Country: {UK}} on the rows
\* (Jan 2024, UK, 100), (Jan 2024, FR, 50) leaves only (UK, 100).
C17_FilterIsStringMembership ==
    (calc.fn = "create_pivot" /\ calc.done) =>
        LET df == calc.args.df
            filter == calc.args.filter
            index == calc.args.rows
            passes(r) ==
                \A i \in 1..Len(filter) :
                    \E v \in filter[i].allowed : Str(r[filter[i].column]) = v.s
            kept == SelectSeq(df.rows, passes)
            table == calc.out.pivot_table
        IN
        /\ calc.out.df_filtered = kept
        /\ {[i \in 1..Len(index) |-> table.rows[j][index[i]]] :
                j \in 1..Len(table.rows)}
             = {[i \in 1..Len(index) |-> kept[j][index[i]]] :
                   j \in {k \in 1..Len(kept) :
                             \A i \in 1..Len(index) : ~IsNull(kept[k][index[i]])}}
        /\ (/\ df = ParsedTable("dated.csv")
            /\ filter = <<[column |-> "Country", list |-> TRUE,
                           allowed |-> {Text("UK")}]>>
            /\ index = <<"Country">>
            /\ calc.args.aggfunc = "sum")
           => table.rows = <<[Country |-> Text("UK"), Revenue |-> Int64(100)]>>

\* C17 witness: two filters, one of them on the numeric column, left one of
\* the four rows, and that row is the table's only group
C17_Witness ==
    /\ calc.fn = "create_pivot"
    /\ calc.done
    /\ calc.args.df = ParsedTable("repeat.csv")
    /\ calc.args.rows = <<"Country">>
    /\ calc.args.aggfunc = "sum"
    /\ calc.args.filter =
          <<[column |-> "Revenue", list |-> TRUE, allowed |-> {Text("100")}],
            [column |-> "Country", list |-> TRUE, allowed |-> {Text("UK")}]>>
    /\ Len(calc.out.df_filtered) = 1
    /\ calc.out.pivot_table.rows = <<[Country |-> Text("UK"), Revenue |-> Int64(100)]>>

C19_DateCandidateRule ==
    (calc.fn = "possible_date_columns" /\ calc.done) =>
        LET df == calc.args.df
            col == df.columns[1]
            cells == [i \in 1..Len(df.rows) |-> df.rows[i][col]]
            present == SelectSeq(cells, LAMBDA v : v # NaN)
            sampled == 1..(IF Len(present) < 5 THEN Len(present) ELSE 5)
            parsed == {i \in sampled : present[i] = Text("2024-01-05")}
            signalled == {i \in sampled : contains_month_name(present[i].s)}
            candidate == col \in Range(calc.out)
        IN
        /\ candidate <=> \/ Cardinality(parsed) >= 3
                         \/ col = "Month" /\ signalled # {}
        /\ Cardinality(parsed) >= 3 => candidate

\* C19 witness: a column whose name holds no date token, with three dates
\* among its first five non-null values, is a date candidate
C19_Witness ==
    /\ calc.fn = "possible_date_columns"
    /\ calc.done
    /\ calc.args.df.columns = <<"Country">>
    /\ [i \in 1..Len(calc.args.df.rows) |-> calc.args.df.rows[i]["Country"]]
          = <<NaN, Text("2024-01-05"), Text("abc"), Text("2024-01-05"),
              Text("mayhem"), Text("2024-01-05")>>
    /\ calc.out = <<"Country">>

\* C20: a column without any non-null value is not among the numeric columns
\* of the ingested table.
C20_EmptyColumnIsCategorical ==
    (calc.fn = "coerce_column_types" /\ calc.done) =>
        \A c \in Range(calc.args.df.columns) :
            (\A i \in 1..Len(calc.args.df.rows) : calc.args.df.rows[i][c] = NaN)
                => c \notin Range(calc.out.numeric_columns)

\* C11: every pivot entry had at most one engine created for it, and its
\* engine, once there, is bound to the entry's own result table and to that
\* table's schema; the engine a question is answered with is the engine of
\* the entry that is selected and active, whatever pivots were created,
\* re-created or deleted before.
C11_OneEnginePerPivot ==
    /\ \A k \in DOMAIN pivot_tables :
          /\ pivot_tables[k].engines_created <= 1
          /\ HasQueryEngine(pivot_tables[k]) <=> pivot_tables[k].engines_created = 1
          /\ HasQueryEngine(pivot_tables[k]) =>
                /\ pivot_tables[k].query_engine.df = pivot_tables[k].result
                /\ pivot_tables[k].query_engine.schema
                      = [index |-> pivot_tables[k].result.index,
                         numeric |-> pivot_tables[k].result.values]
    /\ pc # "idle" =>
          /\ selected_pivot \in DOMAIN pivot_tables
          /\ active_pivot = selected_pivot
          /\ HasQueryEngine(pivot_tables[selected_pivot])
          /\ query_engine = pivot_tables[selected_pivot].query_engine
          /\ query_engine.df = pivot_tables[selected_pivot].result

\* C11 witness: two pivots with different result tables have an engine each,
\* and a question to the one that stands second in the registry is at its
\* execution stage with that pivot's engine
C11_Witness ==
    /\ pivot_order = <<"dated.csv_Pivot 2", "dated.csv_Pivot 1">>
    /\ selected_pivot = "dated.csv_Pivot 1"
    /\ \A k \in Range(pivot_order) : pivot_tables[k].engines_created = 1
    /\ pivot_tables["dated.csv_Pivot 1"].result.index = <<"Country">>
    /\ pivot_tables["dated.csv_Pivot 2"].result.index = <<"Month">>
    /\ pc = "execute"
    /\ query_engine.df.index = <<"Country">>

\* C14: the configuration lines of the chat context built for a question
\* name the group-by columns the selected pivot's result table was computed
\* with, its value columns and its aggregation.
C14_ContextNamesGroupByColumns ==
    (pc = "analyse" /\ via = "chat") =>
        LET pivot_data == pivot_tables[selected_pivot]
            lines == ChatContext(messages, pivot_data)
            line(tag) == lines[CHOOSE i \in 1..Len(lines) : lines[i].tag = tag]
        IN
        /\ line("Rows").text = pivot_data.result.index
        /\ line("Values").text =
              (IF pivot_data.result.values # <<>>
               THEN pivot_data.result.values ELSE <<"None">>)
        /\ line("Aggregation").text = <<pivot_data.result.aggfunc>>

\* C21: every column of a dataset shown on the pivot page is offered in
\* exactly one of the numeric, date and categorical lists, and no date
\* candidate is offered in the numeric list.
C21_EveryColumnExactlyOneKind ==
    (calc.fn = "page_columns" /\ calc.done) =>
        LET offered(list, c) ==
                \E i \in 1..Len(list) : Strip(list[i]) = Strip(c)
            kinds(c) ==
                {k \in {"numeric_columns", "date_columns", "non_numeric_columns"} :
                    offered(calc.out[k], c)}
        IN
        /\ \A c \in Range(calc.args.dataset.columns) : Cardinality(kinds(c)) = 1
        /\ \A c \in Range(calc.out.date_columns) :
               ~offered(calc.out.numeric_columns, c)

\* C22: the evaluation of an expression that references an identifier other
\* than df ends in the error string; the evaluation's output is the same
\* whatever the state outside the bound table, and that state is left as it
\* was.
C22_EvalConfinedToDf ==
    (calc.fn = "process_pandas_instructions" /\ calc.done) =>
        /\ NamesOf(calc.args.pandas_instructions) # {"df"}
              => calc.out.output.error # None
        /\ \A o \in Outsides :
              EvalPandasInstructions(calc.args.pandas_instructions,
                                     calc.args.df, o).output = calc.out.output
        /\ calc.out.outside = calc.args.outside

\* C23: a step after which the query page shows another PivotView than
\* before it (another key, or the same key with another result table or
\* configuration) leaves a message log that holds nothing of the earlier
\* conversation: at most the greeting of the PivotView now selected.
C23_LogResetOnPivotChange ==
    [][LET now == selected_pivot'
           view(pt, k) == [result |-> pt[k].result, config |-> pt[k].config,
                           name |-> pt[k].name,
                           source_dataset |-> pt[k].source_dataset]
           changed ==
               /\ now # None
               /\ \/ selected_pivot # now
                  \/ view(pivot_tables', now) # view(pivot_tables, now)
       IN
       changed =>
           messages' \in {<<>>,
                          <<SystemMessage(pivot_tables'[now],
                                          datasets'[pivot_tables'[now].source_dataset].filename)>>}
      ]_vars
(***************************************************************************)
(* Sessions with two CSV files, pivots and cleanups; no question is asked  *)
(***************************************************************************)
SessionFiles == {"sales.csv", "dated.csv"}
\* at most this many pivots are kept
MaxPivots == 1

SessionUploadFile == UploadFileOf(SessionFiles)

SessionCreatePivot ==
    /\ Cardinality(DOMAIN pivot_tables) < MaxPivots
    /\ CreatePivotOf(PivotNames, PivotAggFuncs)

SessionNext ==
    \/ SessionUploadFile
    \/ SessionCreatePivot
    \/ DeletePivot
    \/ CleanUpSession

SessionSpec == Init /\ [][SessionNext]_vars

(***************************************************************************)
(* Sessions with a CSV file and a workbook of two sheets: sheet            *)
(* processing, joins, pivots and cleanups; no question is asked            *)
(***************************************************************************)
Workbooks == {"book.xlsx"}
\* at most this many joined datasets are made
MaxJoins == 1

RegistryUploadFile == UploadFileOf(Files \cup Workbooks)

\* the "Process Selected Sheet" button of _show_sheet_selector, and the
\* rerun; read_ok tells whether pd.read_excel returned
ProcessSelectedSheet ==
    /\ UserTurn
    /\ \E selected_excel \in get_excel_files_needing_processing(datasets) :
       \E i \in 1..Len(AvailableSheets(datasets[selected_excel])),
          read_ok \in BOOLEAN :
       LET selected_sheet == AvailableSheets(datasets[selected_excel])[i] IN
       /\ IF read_ok
          THEN /\ datasets' = process_excel_sheet(datasets, selected_excel,
                                                  selected_sheet)
               /\ active_dataset' = SheetKey(selected_excel, selected_sheet)
          ELSE UNCHANGED <<datasets, active_dataset>>
       /\ UNCHANGED <<last_uploaded_file, original_df>>
    /\ ShowQueryPage(pivot_tables, pivot_order, active_pivot, selected_pivot)
    /\ UNCHANGED <<execute_retry, retry_query, question_vars, pivot_call>>
    /\ UNCHANGED aside_vars

\* the "Join Datasets" button of show_join_page, which shows once two
\* processed datasets are selected
JoinDatasets ==
    /\ UserTurn
    /\ Cardinality(DOMAIN datasets \cap JoinedKeys) < MaxJoins
    /\ \E selected_datasets \in [1..2 -> get_processed_datasets(datasets)] :
          /\ selected_datasets[1] # selected_datasets[2]
          /\ LET joined == DataServiceJoin(datasets, active_dataset,
                                           selected_datasets, "Joined Dataset")
             IN /\ datasets' = joined.datasets
                /\ active_dataset' = joined.active_dataset
          /\ UNCHANGED <<last_uploaded_file, original_df>>
    /\ ShowQueryPage(pivot_tables, pivot_order, active_pivot, selected_pivot)
    /\ UNCHANGED <<execute_retry, retry_query, question_vars, pivot_call>>
    /\ UNCHANGED aside_vars

RegistryNext ==
    \/ RegistryUploadFile
    \/ ProcessSelectedSheet
    \/ JoinDatasets
    \/ SessionCreatePivot
    \/ DeletePivot
    \/ CleanUpSession

RegistrySpec == Init /\ [][RegistryNext]_vars
(***************************************************************************)
(* Properties of sessions with several datasets                            *)
(***************************************************************************)
\* C24: every dataset registered from a CSV upload holds the table parsed
\* from that upload's own bytes, for every upload of a session and for the
\* uploads made after a session cleanup.
C24_DatasetHoldsItsOwnTable ==
    \A f \in DOMAIN datasets \cap SessionFiles :
        datasets[f].df = ParsedTable(f)
\* C25: a session cleanup leaves no data from before it usable: datasets and
\* pivot tables are empty, the active dataset and the active pivot are None,
\* the message log is empty, and no uploaded table stays cached for a later
\* upload to pick up.
C25_CleanupLeavesNothing ==
    [][CleanUpSession =>
          /\ datasets' = NoDatasets
          /\ pivot_tables' = NoPivots
          /\ active_dataset' = None
          /\ active_pivot' = None
          /\ messages' = <<>>
          /\ original_df' = NoTable
      ]_vars
\* C26: handle_file_upload registers a dataset only after the file's upload
\* to object storage succeeded; when the storage upload fails it returns
\* False and leaves the dataset registry and the active dataset unchanged;
\* and a file whose name is already in the registry is neither uploaded to
\* storage again nor processed again.
C26_RegistersOnlyAfterStorage ==
    (calc.fn = "handle_file_upload" /\ calc.done) =>
        LET before == calc.args.session
            f == calc.args.uploaded_file
            out == calc.out
            registry_changed == out.session.datasets # before.datasets
            upload_failed == out.s3_uploads = 1 /\ ~calc.args.s3_ok
        IN
        /\ registry_changed => out.s3_uploads = 1 /\ calc.args.s3_ok
        /\ upload_failed =>
              /\ out.returned = "False"
              /\ out.session.datasets = before.datasets
              /\ out.session.active_dataset = before.active_dataset
        /\ f \in DOMAIN before.datasets =>
              /\ out.s3_uploads = 0
              /\ ~out.processed
              /\ out.session.datasets = before.datasets
              /\ out.session.active_dataset = before.active_dataset

\* the storage upload failed for a file that is not registered, in a session
\* that has datasets
C26_Witness ==
    /\ calc.fn = "handle_file_upload"
    /\ calc.done
    /\ calc.args.uploaded_file \notin DOMAIN calc.args.session.datasets
    /\ calc.args.uploaded_file # None
    /\ ~calc.args.s3_ok
    /\ calc.out.s3_uploads = 1
    /\ calc.args.session.datasets # NoDatasets
(***************************************************************************)
(* upload_to_s3: the caller's polling loop and the worker thread           *)
(***************************************************************************)
\* the progress shown stays below this until the upload is known to be done
progress_cap == 95

UNCHANGED_but_upload_call ==
    UNCHANGED <<session_vars, question_vars, pivot_call, calc, fastapi>>

\* lines 46-80: the event and the flag are created and the thread is started
StartUploadThread ==
    /\ upload_call.caller = "idle"
    /\ upload_call' = [upload_call EXCEPT !.caller = "polling",
                                          !.worker = "try"]
    /\ UNCHANGED_but_upload_call

\* line 63: file_buffer = BytesIO(uploaded_file.getvalue()), which returns or
\* raises
WorkerMakesBuffer ==
    /\ upload_call.worker = "try"
    /\ \E returns \in BOOLEAN :
          upload_call' =
              IF returns
              THEN [upload_call EXCEPT !.file_buffer = "open",
                                       !.worker = "transfer"]
              ELSE [upload_call EXCEPT !.worker = "except"]
    /\ UNCHANGED_but_upload_call

\* lines 64-71: s3_client.upload_fileobj returns, and the buffer is closed
\* and the flag set; or it raises (also when get_s3_client returned None)
WorkerTransfers ==
    /\ upload_call.worker = "transfer"
    /\ \E returns \in BOOLEAN :
          upload_call' =
              IF returns
              THEN [upload_call EXCEPT !.transfer = "completed",
                                       !.file_buffer = "closed",
                                       !.upload_success = TRUE,
                                       !.worker = "finally"]
              ELSE [upload_call EXCEPT !.transfer = "raised",
                                       !.worker = "except"]
    /\ UNCHANGED_but_upload_call

\* lines 72-73: the exception is printed
WorkerExcept ==
    /\ upload_call.worker = "except"
    /\ upload_call' = [upload_call EXCEPT !.worker = "finally"]
    /\ UNCHANGED_but_upload_call

\* lines 74-76: file_buffer.close(), which raises UnboundLocalError when
\* file_buffer was never assigned, and then upload_complete.set()
WorkerFinally ==
    /\ upload_call.worker = "finally"
    /\ upload_call' =
          IF upload_call.file_buffer = "unbound"
          THEN [upload_call EXCEPT !.worker = "died"]
          ELSE [upload_call EXCEPT !.file_buffer = "closed",
                                   !.upload_complete = TRUE,
                                   !.worker = "done"]
    /\ UNCHANGED_but_upload_call

\* lines 84-90: one round of the polling loop
Poll ==
    /\ upload_call.caller = "polling"
    /\ ~upload_call.upload_complete
    /\ upload_call' =
          [upload_call EXCEPT
              !.progress = IF @ < progress_cap THEN @ + 1 ELSE @]
    /\ UNCHANGED_but_upload_call

\* lines 84, 92-105: the loop ends and the flag is returned
ReturnFromUpload ==
    /\ upload_call.caller = "polling"
    /\ upload_call.upload_complete
    /\ upload_call' = [upload_call EXCEPT !.caller = "returned",
                                          !.returned =
                                              IF upload_call.upload_success
                                              THEN "True" ELSE "False"]
    /\ UNCHANGED_but_upload_call

Worker ==
    WorkerMakesBuffer \/ WorkerTransfers \/ WorkerExcept \/ WorkerFinally

UploadNext ==
    \/ StartUploadThread
    \/ WorkerMakesBuffer
    \/ WorkerTransfers
    \/ WorkerExcept
    \/ WorkerFinally
    \/ Poll
    \/ ReturnFromUpload

\* both threads are scheduled again and again
UploadSpec ==
    /\ Init
    /\ [][UploadNext]_vars
    /\ WF_vars(Worker)
    /\ WF_vars(Poll)
    /\ WF_vars(ReturnFromUpload)

\* C27: a call of upload_to_s3 returns: on every path of the worker thread
\* the completion event is eventually set and the polling loop exits.
C27_UploadAlwaysReturns ==
    (upload_call.caller = "polling") ~> (upload_call.caller = "returned")
(***************************************************************************)
(* fastapi_wrapper: the startup thread, the shutdown handler and the       *)
(* Streamlit subprocess                                                    *)
(***************************************************************************)
\* at most this many requests are answered before the shutdown
MaxRequests == 3

UNCHANGED_but_fastapi ==
    UNCHANGED <<session_vars, question_vars, pivot_call, calc, upload_call>>

\* startup_event: the thread that runs start_streamlit is started
StartupEvent ==
    /\ fastapi.thread = "unborn"
    /\ fastapi.handler = "idle"
    /\ fastapi' = [fastapi EXCEPT !.thread = "started"]
    /\ UNCHANGED_but_fastapi

\* start_streamlit, line 56, right-hand side: subprocess.Popen(cmd) starts
\* the subprocess and returns, or raises
ThreadPopen ==
    /\ fastapi.thread = "started"
    /\ \E returns \in BOOLEAN :
          fastapi' = IF returns
                     THEN [fastapi EXCEPT !.process = "running",
                                          !.thread = "assign"]
                     ELSE [fastapi EXCEPT !.thread = "raised"]
    /\ UNCHANGED_but_fastapi

\* start_streamlit, line 56, the assignment to app_state.streamlit_process
ThreadAssign ==
    /\ fastapi.thread = "assign"
    /\ fastapi' = [fastapi EXCEPT !.streamlit_process = "Popen",
                                  !.thread = "sleep"]
    /\ UNCHANGED_but_fastapi

\* start_streamlit, lines 57-60: the log line and the sleep
ThreadReturns ==
    /\ fastapi.thread = "sleep"
    /\ fastapi' = [fastapi EXCEPT !.thread = "returned"]
    /\ UNCHANGED_but_fastapi

\* the subprocess ends: on its own, or because it was sent SIGTERM
ProcessExits ==
    /\ fastapi.process \in {"running", "terminating"}
    /\ fastapi' = [fastapi EXCEPT !.process = "exited"]
    /\ UNCHANGED_but_fastapi

\* a request to /, /healthcheck or /admin/cleanup is answered
ServeRequest ==
    /\ fastapi.thread # "unborn"
    /\ fastapi.handler = "idle"
    /\ fastapi.requests < MaxRequests
    /\ fastapi' = [fastapi EXCEPT !.requests = @ + 1]
    /\ UNCHANGED_but_fastapi

\* shutdown_event, lines 72-75: the test of app_state.streamlit_process and
\* terminate()
ShutdownEvent ==
    /\ fastapi.thread # "unborn"
    /\ fastapi.handler = "idle"
    /\ fastapi' =
          IF fastapi.streamlit_process = None
          THEN [fastapi EXCEPT !.handler = "cleanup"]
          ELSE [fastapi EXCEPT
                   !.process = IF @ = "running" THEN "terminating" ELSE @,
                   !.handler = "wait"]
    /\ UNCHANGED_but_fastapi

\* shutdown_event, lines 76-79: wait(timeout=5) returns once the subprocess
\* has ended, and raises TimeoutExpired while it has not
ShutdownWait ==
    /\ fastapi.handler = "wait"
    /\ fastapi' = [fastapi EXCEPT
                      !.handler = IF fastapi.process = "exited"
                                  THEN "cleanup" ELSE "kill"]
    /\ UNCHANGED_but_fastapi

\* shutdown_event, line 80: kill()
ShutdownKill ==
    /\ fastapi.handler = "kill"
    /\ fastapi' = [fastapi EXCEPT !.process = "exited", !.handler = "cleanup"]
    /\ UNCHANGED_but_fastapi

\* shutdown_event, line 82: cleanup_storage(), and the handler returns
ShutdownCleanup ==
    /\ fastapi.handler = "cleanup"
    /\ fastapi' = [fastapi EXCEPT !.handler = "completed"]
    /\ UNCHANGED_but_fastapi

WrapperNext ==
    \/ StartupEvent
    \/ ThreadPopen
    \/ ThreadAssign
    \/ ThreadReturns
    \/ ProcessExits
    \/ ServeRequest
    \/ ShutdownEvent
    \/ ShutdownWait
    \/ ShutdownKill
    \/ ShutdownCleanup

WrapperSpec == Init /\ [][WrapperNext]_vars

\* C28: once the shutdown handler has completed, no Streamlit subprocess
\* started by the application is running, whatever the interleaving of the
\* startup thread with the handler.
C28_NoSubprocessAfterShutdown ==
    fastapi.handler = "completed" =>
        fastapi.process \notin {"running", "terminating"}
(***************************************************************************)
(* Properties of the dataset registry                                      *)
(***************************************************************************)
\* C29: in every state reached by uploads, sheet processing, joins, pivot
\* creation, pivot deletion and session cleanup, the source_dataset of each
\* stored pivot table is a key of the dataset registry.
C29_PivotSourceIsRegistered ==
    \A k \in DOMAIN pivot_tables :
        pivot_tables[k].source_dataset \in DOMAIN datasets

\* a pivot of a joined dataset is stored while a sheet of the workbook is
\* still to be processed
C29_Witness ==
    /\ \E k \in DOMAIN pivot_tables :
          pivot_tables[k].source_dataset \in JoinedKeys
    /\ get_excel_files_needing_processing(datasets) # {}
\* C30: for a workbook of several sheets whose sheets are processed through
\* the sheet selector, processed_sheets is a subset of sheet_names without
\* duplicates, pending_sheet_selection is False exactly when every sheet has
\* been processed, and the file is listed as needing processing exactly
\* while at least one sheet is unprocessed.
C30_SheetBookkeeping ==
    \A key \in DOMAIN datasets :
        "sheet_names" \in DOMAIN datasets[key] =>
            LET dataset == datasets[key]
                processed == dataset.processed_sheets
                unprocessed == Range(dataset.sheet_names) \ Range(processed)
            IN
            /\ Range(processed) \subseteq Range(dataset.sheet_names)
            /\ \A i, j \in 1..Len(processed) : processed[i] = processed[j] => i = j
            /\ ~dataset.pending_sheet_selection <=> unprocessed = {}
            /\ key \in get_excel_files_needing_processing(datasets)
                  <=> unprocessed # {}

\* both sheets of the workbook were processed, the second one first
C30_Witness ==
    /\ "book.xlsx" \in DOMAIN datasets
    /\ datasets["book.xlsx"].processed_sheets = <<"Q2", "Q1">>
    /\ ~datasets["book.xlsx"].pending_sheet_selection
    /\ {"book.xlsx_Q1", "book.xlsx_Q2"} \subseteq DOMAIN datasets

====
